---- MODULE Spec2Model ----
(***************************************************************************)
(* Model of the droid-rig playback engine: Animator (animation/animator.py)*)
(* driving ServoController (hardware/servo.py) and AudioPlayer             *)
(* (audio/player.py).  Threads: callers of play_preset / play_keyframes    *)
(* (direct or through the *_async wrappers), the deferred audio timer of a *)
(* negative-offset session, the AudioPlayer play thread, and a thread      *)
(* calling Animator.stop.  Time is in milliseconds; a sleeping thread      *)
(* carries the time it still has to sleep, and time advances only when no  *)
(* thread is ready to run (computation is instantaneous against sleeps).   *)
(***************************************************************************)
EXTENDS Integers, Sequences, FiniteSets, TLC

\* ---------------------------------------------------------------- bounds
MaxStarts == 2
MaxStops == 2

\* ------------------------------------------------------ program constants
MIN_PULSE == 800
MAX_PULSE == 2500
CENTER_PULSE == 1500
STEP == 20
DELAY_MS == 20
PAUSE_MS == 500
START_TIMEOUT_MS == 1000

Callers == {"c1", "c2"}
AThreads == {1, 2}
Channels == {0, 1}
NoProc == 0

Max(a, b) == IF a >= b THEN a ELSE b
Min(a, b) == IF a <= b THEN a ELSE b
Abs(a) == IF a >= 0 THEN a ELSE 0 - a

\* int(x) of Python truncates toward zero; n / d with d > 0
TruncDiv(n, d) == IF n >= 0 THEN n \div d ELSE 0 - ((0 - n) \div d)

\* ---------------------------------------------------------------- inputs
\* A keyframe as /play receives it: JSON object keys are strings.
Keys == {"0", "1", "x"}
IsIntKey(k) == k \in {"0", "1"}
KeyToInt(k) == IF k = "0" THEN 0 ELSE 1

Frame(sv, d) == [servos |-> sv, duration |-> d]
NoTargets == [k \in {} |-> 0]
FrameLists ==
  { << Frame([k \in {"0"} |-> 1540], 40) >>,
    << Frame(NoTargets, 40), Frame([k \in {"0", "1"} |-> IF k = "0" THEN 1520 ELSE 1470], 20) >>,
    << Frame([k \in {"x"} |-> 1500], 20) >> }

InitOffsets == {0 - 40, 0, 20}

\* what the external player does: the time Popen takes to launch it (at once, or
\* longer than the start timeout) and the length of the clip it plays, in ms
LaunchDelays == {0, 1020}
ClipLengths == {100}

\* per-servo limits as servo_config.json sets them (narrower than the global range,
\* so that set_position's clamp acts)
InitSettings == [min_pulse |-> 1460, max_pulse |-> 1540, center_pulse |-> CENTER_PULSE]


\* ------------------------------------------------------------------ state
VARIABLES
  is_animating,     \* Animator._is_animating
  stop_requested,   \* Animator._stop_requested
  lockOwner,        \* holder of Animator._lock, or "none"
  positions,        \* ServoController.positions
  servos,           \* ServoConfigStore.servos: per-channel limits
  track,            \* AudioPlayer.current_audio_file is set and exists
  audio_offset_ms,  \* ServoConfigStore.audio_offset_ms
  is_playing,       \* AudioPlayer._is_playing
  current_process,  \* AudioPlayer._current_process (NoProc = None)
  play_started,     \* AudioPlayer._play_started_event
  procAlive,        \* external player process launched by each play thread
  th,               \* caller threads: position and locals of play_preset / play_keyframes
  tm,               \* deferred audio timer thread of each caller's session
  au,               \* AudioPlayer play threads (_play_audio)
  spc,              \* thread calling Animator.stop: "idle", or in its audio half ("audio", "audio_again")
  ret,              \* outcome of each caller's last call
  g,                \* per-session history (observation only)
  interp,           \* the _get_value_at_time call of the web layer: arguments and result
  web,              \* the request the web layer handles: its input and its outcome
  num_servos,       \* ServoConfigStore.num_servos
  nStarts, nClaims, nStops, nFaults

vars == << is_animating, stop_requested, lockOwner, positions, servos, track,
           audio_offset_ms, is_playing, current_process, play_started, procAlive,
           th, tm, au, spc, ret, g, interp, web, num_servos, nStarts, nClaims, nStops, nFaults >>

animVars == << is_animating, stop_requested, lockOwner >>
audioVars == << is_playing, current_process, play_started, procAlive, au >>
\* what no thread of the playback engine writes
cfgVars == << servos, track, audio_offset_ms, interp, web, num_servos >>
cntVars == << nStarts, nClaims, nStops, nFaults >>

MaxFaults == 1
LagCap == 600

IdleThread ==
  [pc |-> "idle", kind |-> "none", frames |-> << >>, with_audio |-> FALSE,
   fi |-> 1, step_num |-> 0, steps |-> 1, targets |-> NoTargets, starts |-> NoTargets,
   latency |-> 0, has_audio |-> FALSE, sw |-> 1, pos |-> 0, sleep |-> 0, async |-> FALSE]

NoAudioThread == [pc |-> "none", left |-> 0]

NoTimer == [pc |-> "none", left |-> 0, latency |-> 0, cancel |-> FALSE, elapsed |-> 0]

FreshHistory ==
  [wrote |-> FALSE, obs |-> FALSE, wao |-> FALSE, wsf |-> [ch \in Channels |-> 0],
   lag |-> 0, stopd |-> FALSE, how |-> "none",
   playInv |-> FALSE, playRet |-> FALSE, offSlept |-> FALSE,
   tplayed |-> FALSE, pbw |-> FALSE, idleStop |-> FALSE]

\* no request is being handled
NoRequest == [req |-> "none"]

\* no _get_value_at_time call is under way
NoQuery == [points |-> << >>, time |-> 0, default |-> CENTER_PULSE, done |-> FALSE, out |-> 0]

\* ServoController.__init__: the settings of the config store, then center_all()
ControllerInit(settings) ==
  /\ num_servos = Cardinality(Channels)
  /\ servos = [ch \in Channels |-> settings]
  /\ positions = [ch \in Channels |-> servos[ch].center_pulse]

IdleInit ==
  /\ is_animating = FALSE
  /\ stop_requested = FALSE
  /\ lockOwner = "none"
  /\ track \in BOOLEAN
  /\ audio_offset_ms \in (IF track THEN InitOffsets ELSE {0})
  /\ is_playing = FALSE
  /\ current_process = NoProc
  /\ play_started = FALSE
  /\ procAlive = [a \in AThreads |-> FALSE]
  /\ th = [c \in Callers |-> IdleThread]
  /\ tm = [c \in Callers |-> NoTimer]
  /\ au = [a \in AThreads |-> NoAudioThread]
  /\ spc = "idle"
  /\ ret = [c \in Callers |-> "none"]
  /\ g = [c \in Callers |-> FreshHistory]
  /\ nStarts = 0 /\ nClaims = 0 /\ nStops = 0 /\ nFaults = 0

EngineInit == ControllerInit(InitSettings) /\ IdleInit

Init == EngineInit /\ interp = NoQuery /\ web = NoRequest

\* ------------------------------------------------------- ServoController
Clamp(lo, hi, p) == Max(lo, Min(hi, p))

\* set_position: clamp to the channel's configured range, record it
SetPosition(posns, ch, p) ==
  [posns EXCEPT ![ch] = Clamp(servos[ch].min_pulse, servos[ch].max_pulse, p)]

\* (variant: the configured center, whatever was last applied)
GetPositionCenter(posns, ch) == servos[ch].center_pulse

\* get_position: last applied pulse (positions is filled by center_all)
GetPosition(posns, ch) == posns[ch]

\* ----------------------------------------------------- keyframe stepping
\* the durations up to 2000 ms whose float quotient (ms / 1000.0) / 0.02 falls just
\* below the integer ms / 20
QuotientShort == {580, 940, 1140, 1160, 1180, 1880}

\* int(duration / DELAY), duration in seconds as a float, for 0 <= ms <= 2000
IntQuotient(ms) ==
  IF ms \in QuotientShort THEN ms \div DELAY_MS - 1 ELSE ms \div DELAY_MS

\* steps = max(1, int(duration / DELAY))
StepsFor(duration) == Max(1, IntQuotient(duration))

\* (variant: the steps start from the center, whatever the position snapshotted)
StepPosFromCenter(start, target, sn, n) ==
  Clamp(MIN_PULSE, MAX_PULSE, TruncDiv(CENTER_PULSE * n + (target - CENTER_PULSE) * sn, n))

\* pos = int(start + (target - start) * t), t = step_num / steps, clamped to the global
\* range; with steps 1, 2 or 4 the float t and the product are exact, and int()
\* truncates toward zero
StepPos(start, target, sn, n) ==
  Clamp(MIN_PULSE, MAX_PULSE, TruncDiv(start * n + (target - start) * sn, n))

RECURSIVE SeqOf(_)
SeqOf(S) == IF S = {} THEN << >>
            ELSE LET m == CHOOSE x \in S : \A y \in S : x <= y
                 IN << m >> \o SeqOf(S \ {m})

\* the writes of one step, channel by channel, over the first k channels
RECURSIVE WriteChannels(_, _, _, _)
WriteChannels(posns, t, chs, k) ==
  IF k = 0 THEN posns
  ELSE LET ch == chs[k]
           before == WriteChannels(posns, t, chs, k - 1)
       IN SetPosition(before, ch, StepPos(t.starts[ch], t.targets[ch], t.step_num, t.steps))

\* targets = {int(ch): val for ch, val in raw_targets.items()}
TargetsOf(frame) ==
  [ch \in {KeyToInt(k) : k \in DOMAIN frame.servos} |->
     frame.servos[CHOOSE k \in DOMAIN frame.servos : KeyToInt(k) = ch]]

KeysParse(frame) == \A k \in DOMAIN frame.servos : IsIntKey(k)

\* --------------------------------------------------------- preset sweeps
SweepChannel(i) == IF i <= 2 THEN 0 ELSE 1
SweepStart(i) == CASE i = 1 -> CENTER_PULSE [] i = 2 -> MAX_PULSE
                   [] i = 3 -> CENTER_PULSE [] OTHER -> MIN_PULSE
SweepEnd(i) == CASE i = 1 -> MAX_PULSE [] i = 2 -> CENTER_PULSE
                 [] i = 3 -> MIN_PULSE [] OTHER -> CENTER_PULSE
\* range(start, end + 1, step) or range(start, end - 1, -step)
SweepInRange(i, p) == IF SweepStart(i) < SweepEnd(i) THEN p < SweepEnd(i) + 1
                      ELSE p > SweepEnd(i) - 1
\* (variant: the range never advances)
SweepNextStill(i, p) == p

SweepNext(i, p) == IF SweepStart(i) < SweepEnd(i) THEN p + STEP ELSE p - STEP


\* a call by caller c returns v
Return(c, v) == ret' = [ret EXCEPT ![c] = v]

\* ------------------------------------------------------ history updates
InSession(c) == th[c].pc \notin {"idle", "claim"}

\* caller c issued set_position on the channels W
NoteWrites(h, W) ==
  [h EXCEPT !.wrote = TRUE,
            !.wao = h.wao \/ h.obs,
            !.pbw = h.pbw \/ (~h.wrote /\ h.tplayed /\ W # {}),
            !.wsf = [ch \in Channels |->
                       IF ch \in W /\ stop_requested THEN Min(h.wsf[ch] + 1, 2)
                       ELSE h.wsf[ch]]]

NoteObserved(h) == [h EXCEPT !.obs = TRUE]

\* --------------------------------------------------- Animator: starting
\* play_preset_async / play_keyframes_async: `if self._is_animating: return False`
AsyncBusy == is_animating

\* the calls the environment makes: MaxStarts in all, caller c1 first, and a caller
\* whose deferred audio timer is still pending makes no new call
CanCall(c) ==
  /\ nStarts < MaxStarts
  /\ tm[c].pc = "none"
  /\ c = "c1" \/ nStarts > 0

\* play_preset_async / play_keyframes_async: the check, then `thread.start()`;
\* the thread's call of play_preset / play_keyframes is pending at "claim"
StartAsync(c) ==
  /\ th[c].pc = "idle" /\ CanCall(c)
  /\ IF AsyncBusy
       THEN /\ Return(c, "refused")
            /\ UNCHANGED th
       ELSE /\ Return(c, "started")
            /\ th' = [th EXCEPT ![c] = [IdleThread EXCEPT !.pc = "claim", !.async = TRUE]]
  /\ nStarts' = nStarts + 1
  /\ UNCHANGED << animVars, positions, cfgVars, audioVars, tm, spc, g, nClaims, nStops, nFaults >>

\* `with self._lock: if self._is_animating: return False`
\* (variant: the check never refuses)
ClaimBusyNever == FALSE

ClaimBusy == is_animating

\* a call of play_preset / play_keyframes reaches the lock: directly by caller c
\* (pc = "idle") or in the thread an async wrapper started (pc = "claim")
AtClaim(c) ==
  /\ lockOwner = "none"
  /\ \/ th[c].pc = "claim"
     \/ th[c].pc = "idle" /\ CanCall(c)

CountCall(c) == nStarts' = IF th[c].pc = "idle" THEN nStarts + 1 ELSE nStarts

\* (variant: the refused call resets the stop request before it returns)
BusyResetsStop(c) ==
  /\ AtClaim(c)
  /\ ClaimBusy
  /\ th' = [th EXCEPT ![c] = IdleThread]
  /\ Return(c, "busy")
  /\ CountCall(c)
  /\ stop_requested' = FALSE
  /\ UNCHANGED << is_animating, lockOwner, positions, cfgVars, audioVars, tm, spc, g,
                  nClaims, nStops, nFaults >>

Busy(c) ==
  /\ AtClaim(c)
  /\ ClaimBusy
  /\ th' = [th EXCEPT ![c] = IdleThread]
  /\ Return(c, "busy")
  /\ CountCall(c)
  /\ UNCHANGED << animVars, positions, cfgVars, audioVars, tm, spc, g, nClaims, nStops, nFaults >>

\* `self._is_animating = True` (lock held); the call's arguments are kind, fr, wa
Claim(c, kind, fr, wa) ==
  /\ AtClaim(c)
  /\ ~ClaimBusy
  /\ is_animating' = TRUE
  /\ lockOwner' = c
  /\ th' = [th EXCEPT ![c] = [IdleThread EXCEPT !.pc = "claim_reset", !.kind = kind,
                                !.frames = fr, !.with_audio = wa, !.async = th[c].async]]
  /\ nClaims' = nClaims + 1
  /\ ret' = [ret EXCEPT ![c] = "none"]
  /\ g' = [g EXCEPT ![c].idleStop = stop_requested /\ nClaims = 0]
  /\ CountCall(c)
  /\ UNCHANGED << stop_requested, positions, cfgVars, audioVars, tm, spc, nStops, nFaults >>

\* (variant: the preset starts the audio before it sweeps)
ClaimResetPlays(c) ==
  /\ th[c].pc = "claim_reset" /\ lockOwner = c
  /\ stop_requested' = FALSE
  /\ lockOwner' = "none"
  /\ th' = [th EXCEPT ![c].pc = IF th[c].kind = "preset" THEN "play_call" ELSE "handshake",
                      ![c].sw = 1, ![c].pos = SweepStart(1)]
  /\ UNCHANGED << is_animating, positions, cfgVars, audioVars, tm, spc, ret, g, cntVars >>

\* (variant: the claim leaves the stop request as it finds it)
ClaimKeepsStop(c) ==
  /\ th[c].pc = "claim_reset" /\ lockOwner = c
  /\ lockOwner' = "none"
  /\ th' = [th EXCEPT ![c].pc = IF th[c].kind = "preset" THEN "sweep" ELSE "handshake",
                      ![c].sw = 1, ![c].pos = SweepStart(1)]
  /\ UNCHANGED << is_animating, stop_requested, positions, cfgVars, audioVars, tm, spc, ret, g,
                  cntVars >>

\* (variant: the lock is kept when the claim's block is left)
ClaimResetHolds(c) ==
  /\ th[c].pc = "claim_reset" /\ lockOwner = c
  /\ stop_requested' = FALSE
  /\ th' = [th EXCEPT ![c].pc = IF th[c].kind = "preset" THEN "sweep" ELSE "handshake",
                      ![c].sw = 1, ![c].pos = SweepStart(1)]
  /\ UNCHANGED << is_animating, lockOwner, positions, cfgVars, audioVars, tm, spc, ret, g,
                  cntVars >>

\* `self._stop_requested = False`, then the lock is released
ClaimReset(c) ==
  /\ th[c].pc = "claim_reset" /\ lockOwner = c
  /\ stop_requested' = FALSE
  /\ lockOwner' = "none"
  /\ th' = [th EXCEPT ![c].pc = IF th[c].kind = "preset" THEN "sweep" ELSE "handshake",
                      ![c].sw = 1, ![c].pos = SweepStart(1)]
  /\ UNCHANGED << is_animating, positions, cfgVars, audioVars, tm, spc, ret, g, cntVars >>

\* (variant: the session centers the servos as it ends)
ReleaseCenters(c) ==
  /\ th[c].pc = "release" /\ lockOwner = "none"
  /\ is_animating' = FALSE
  /\ positions' = [ch \in Channels |-> servos[ch].center_pulse]
  /\ th' = [th EXCEPT ![c] = IdleThread]
  /\ Return(c, IF g[c].how = "exc" THEN "raised" ELSE "true")
  /\ g' = [g EXCEPT ![c] = FreshHistory]
  /\ UNCHANGED << stop_requested, lockOwner, cfgVars, audioVars, tm, spc, cntVars >>

\* (variant: no finally, the flag is cleared on the normal exit only)
ReleaseUnlessRaised(c) ==
  /\ th[c].pc = "release" /\ lockOwner = "none"
  /\ is_animating' = (g[c].how = "exc")
  /\ th' = [th EXCEPT ![c] = IdleThread]
  /\ Return(c, IF g[c].how = "exc" THEN "raised" ELSE "true")
  /\ g' = [g EXCEPT ![c] = FreshHistory]
  /\ UNCHANGED << stop_requested, lockOwner, positions, cfgVars, audioVars, tm, spc, cntVars >>

\* finally: `with self._lock: self._is_animating = False`
Release(c) ==
  /\ th[c].pc = "release" /\ lockOwner = "none"
  /\ is_animating' = FALSE
  /\ th' = [th EXCEPT ![c] = IdleThread]
  /\ Return(c, IF g[c].how = "exc" THEN "raised" ELSE "true")
  /\ g' = [g EXCEPT ![c] = FreshHistory]
  /\ UNCHANGED << stop_requested, lockOwner, positions, cfgVars, audioVars, tm, spc, cntVars >>

\* ------------------------------------------------- Animator: play_preset
SweepStopCheck == stop_requested
PauseStopCheck == stop_requested

\* sweep_servo returned: the next statement of play_preset
AfterSweep(t) ==
  CASE t.sw = 2 -> [t EXCEPT !.pc = "pause_check"]
    [] t.sw = 4 -> [t EXCEPT !.pc = "release"]
    [] OTHER -> [t EXCEPT !.pc = "sweep", !.sw = t.sw + 1, !.pos = SweepStart(t.sw + 1)]

\* `for pos in positions: if self._stop_requested: return`
SweepCheck(c) ==
  /\ th[c].pc = "sweep"
  /\ LET t == th[c]
         ended == [t EXCEPT !.pc = "release"]
     IN IF ~SweepInRange(t.sw, t.pos)
          THEN /\ th' = [th EXCEPT ![c] = AfterSweep(t)]
               /\ g' = IF t.sw = 4
                         THEN [g EXCEPT ![c].how = IF g[c].obs THEN "stopped" ELSE "completed"]
                         ELSE g
          ELSE IF SweepStopCheck
            THEN /\ th' = [th EXCEPT ![c] = AfterSweep(t)]
                 /\ g' = [g EXCEPT ![c] = [NoteObserved(g[c]) EXCEPT
                                             !.how = IF t.sw = 4 THEN "stopped" ELSE g[c].how]]
            ELSE /\ th' = [th EXCEPT ![c].pc = "sweep_write"]
                 /\ UNCHANGED g
  /\ UNCHANGED << animVars, positions, cfgVars, audioVars, tm, spc, ret, cntVars >>

\* `self.servo.set_position(channel, pos); time.sleep(delay)`
SweepWrite(c) ==
  /\ th[c].pc = "sweep_write"
  /\ positions' = SetPosition(positions, SweepChannel(th[c].sw), th[c].pos)
  /\ th' = [th EXCEPT ![c].pc = "sweep_sleep", ![c].sleep = DELAY_MS]
  /\ g' = [g EXCEPT ![c] = NoteWrites(g[c], {SweepChannel(th[c].sw)})]
  /\ UNCHANGED << animVars, cfgVars, audioVars, tm, spc, ret, cntVars >>

\* the I2C write of set_position raises: the exception leaves play_preset
SweepWriteFault(c) ==
  /\ th[c].pc = "sweep_write" /\ nFaults < MaxFaults
  /\ nFaults' = nFaults + 1
  /\ th' = [th EXCEPT ![c].pc = "release"]
  /\ g' = [g EXCEPT ![c].how = "exc"]
  /\ UNCHANGED << animVars, positions, cfgVars, audioVars, tm, spc, ret, nStarts, nClaims, nStops >>

SweepWake(c) ==
  /\ th[c].pc = "sweep_sleep" /\ th[c].sleep = 0
  /\ th' = [th EXCEPT ![c].pc = "sweep", ![c].pos = SweepNext(th[c].sw, th[c].pos)]
  /\ UNCHANGED << animVars, positions, cfgVars, audioVars, tm, spc, ret, g, cntVars >>

\* `if not self._stop_requested: time.sleep(0.5)`
PauseCheck(c) ==
  /\ th[c].pc = "pause_check"
  /\ IF PauseStopCheck
       THEN /\ th' = [th EXCEPT ![c].pc = "sweep", ![c].sw = 3, ![c].pos = SweepStart(3)]
            /\ g' = [g EXCEPT ![c] = NoteObserved(g[c])]
       ELSE /\ th' = [th EXCEPT ![c].pc = "pause", ![c].sleep = PAUSE_MS]
            /\ UNCHANGED g
  /\ UNCHANGED << animVars, positions, cfgVars, audioVars, tm, spc, ret, cntVars >>

\* the pause is over: `self.sweep_servo(1, CENTER_PULSE, MIN_PULSE)`
PauseWake(c) ==
  /\ th[c].pc = "pause" /\ th[c].sleep = 0
  /\ th' = [th EXCEPT ![c].pc = "sweep", ![c].sw = 3, ![c].pos = SweepStart(3)]
  /\ UNCHANGED << animVars, positions, cfgVars, audioVars, tm, spc, ret, g, cntVars >>



\* ------------------------------------------------------------ AudioPlayer
\* play(): `if not self.current_audio_file ...: return False`,
\* `with self._lock: if self._is_playing: return False`
PlayStarts == track /\ ~is_playing

FreeThread == CHOOSE a \in AThreads : au[a].pc = "none" /\ \A b \in AThreads : au[b].pc = "none" => a <= b
HasFreeThread == \E a \in AThreads : au[a].pc = "none"

\* play() past its checks: mark playing, clear the event, start _play_audio
\* (whose Popen will take `delay` ms)
PlayEnter(delay) ==
  /\ is_playing' = TRUE
  /\ play_started' = FALSE
  /\ au' = [au EXCEPT ![FreeThread] = [pc |-> "spawn", left |-> delay]]
  /\ UNCHANGED << current_process, procAlive >>

\* _play_audio: Popen succeeded, `self._play_started_event.set()`
APopenOk(a, clip) ==
  /\ au[a].pc = "spawn" /\ au[a].left = 0
  /\ current_process' = a
  /\ procAlive' = [procAlive EXCEPT ![a] = TRUE]
  /\ play_started' = TRUE
  /\ au' = [au EXCEPT ![a] = [pc |-> "wait", left |-> clip]]
  /\ UNCHANGED << animVars, positions, cfgVars, is_playing, th, tm, spc, ret, g, cntVars >>

\* _play_audio: Popen raised, `except Exception: self._play_started_event.set()`
APopenFail(a) ==
  /\ au[a].pc = "spawn" /\ au[a].left = 0 /\ nFaults < MaxFaults
  /\ nFaults' = nFaults + 1
  /\ play_started' = TRUE
  /\ au' = [au EXCEPT ![a] = [pc |-> "finally", left |-> 0]]
  /\ UNCHANGED << animVars, positions, cfgVars, is_playing, current_process, procAlive,
                  th, tm, spc, ret, g, nStarts, nClaims, nStops >>

\* `self._current_process.wait()` returns: the clip ended or the process was terminated
AWaitDone(a) ==
  /\ au[a].pc = "wait" /\ (au[a].left = 0 \/ ~procAlive[a])
  /\ procAlive' = [procAlive EXCEPT ![a] = FALSE]
  /\ au' = [au EXCEPT ![a] = [pc |-> "finally", left |-> 0]]
  /\ UNCHANGED << animVars, positions, cfgVars, is_playing, current_process, play_started,
                  th, tm, spc, ret, g, cntVars >>

\* finally: `with self._lock: self._is_playing = False; self._current_process = None`
AFinally(a) ==
  /\ au[a].pc = "finally"
  /\ is_playing' = FALSE
  /\ current_process' = NoProc
  /\ au' = [au EXCEPT ![a] = NoAudioThread]
  /\ UNCHANGED << animVars, positions, cfgVars, play_started, procAlive,
                  th, tm, spc, ret, g, cntVars >>

\* AudioPlayer.stop() on the audio fields s = [playing, proc, alive]
AudioState == [playing |-> is_playing, proc |-> current_process, alive |-> procAlive]

\* (variant: _is_playing is cleared only when there is no process to terminate)
AudioStopElse(s) ==
  [playing |-> IF s.proc # NoProc THEN s.playing ELSE FALSE,
   proc |-> NoProc,
   alive |-> IF s.proc # NoProc THEN [s.alive EXCEPT ![s.proc] = FALSE] ELSE s.alive]

AudioStopResult(s) ==
  [playing |-> FALSE,
   proc |-> NoProc,
   alive |-> IF s.proc # NoProc THEN [s.alive EXCEPT ![s.proc] = FALSE] ELSE s.alive]

\* ------------------------------------------------------- Animator.stop()
\* `self._stop_requested = True`
StopSetFlag ==
  /\ spc = "idle" /\ nStops < MaxStops
  /\ nStops' = nStops + 1
  /\ stop_requested' = TRUE
  /\ spc' = IF stop_requested /\ AudioStopResult(AudioState) = AudioState
              THEN "audio_again" ELSE "audio"
  /\ g' = [c \in Callers |-> IF InSession(c) THEN [g[c] EXCEPT !.stopd = TRUE] ELSE g[c]]
  /\ tm' = [c \in Callers |->
              IF InSession(c) /\ tm[c].pc = "sleep" THEN [tm[c] EXCEPT !.cancel = TRUE]
              ELSE tm[c]]
  /\ UNCHANGED << is_animating, lockOwner, positions, cfgVars, audioVars, th, ret,
                  nStarts, nClaims, nFaults >>

\* `if self.audio_player: self.audio_player.stop()`
StopAudio ==
  /\ spc # "idle"
  /\ LET r == AudioStopResult(AudioState)
     IN /\ is_playing' = r.playing
        /\ current_process' = r.proc
        /\ procAlive' = r.alive
  /\ spc' = "idle"
  /\ UNCHANGED << animVars, positions, cfgVars, play_started, au, th, tm, ret, g, cntVars >>


\* ---------------------------------------------- Animator: play_keyframes
FrameStopCheck == stop_requested
\* (variant: the step loop never looks at the flag)
StepStopCheckNever == FALSE

StepStopCheck == stop_requested
TimerStopCheck == stop_requested

\* (variant: the track is not looked at)
HasAudioRequested(c) == th[c].with_audio

\* `has_audio = with_audio and self.audio_player and self.audio_player.current_audio_file`
\* (the web application always gives the Animator its AudioPlayer)
HasAudio(c) == th[c].with_audio /\ track

\* `latency >= 0`: audio first
AudioFirst(latency) == latency >= 0

\* (variant: the timer does not sleep)
TimerDelayNone(latency) == 0

\* delayed_audio: `time.sleep(abs(latency))`
TimerDelay(latency) == Abs(latency)

\* the synchronization handshake: read the offset once, pick the branch
Handshake(c) ==
  /\ th[c].pc = "handshake"
  /\ IF ~HasAudio(c)
       THEN /\ th' = [th EXCEPT ![c].pc = "frame"]
            /\ UNCHANGED tm
       ELSE IF AudioFirst(audio_offset_ms)
         THEN /\ th' = [th EXCEPT ![c].pc = "play_call", ![c].has_audio = TRUE,
                                  ![c].latency = audio_offset_ms]
              /\ UNCHANGED tm
         ELSE /\ th' = [th EXCEPT ![c].pc = "frame", ![c].has_audio = TRUE,
                                  ![c].latency = audio_offset_ms]
              /\ tm' = [tm EXCEPT ![c] = [NoTimer EXCEPT !.pc = "sleep",
                                                           !.left = TimerDelay(audio_offset_ms),
                                                           !.latency = audio_offset_ms]]
  /\ UNCHANGED << animVars, positions, cfgVars, audioVars, spc, ret, g, cntVars >>

\* (variant: the offset is read again after play() returned)
AfterPlayRereads(t) ==
  IF audio_offset_ms > 0 THEN [t EXCEPT !.pc = "offset_sleep", !.sleep = audio_offset_ms]
  ELSE [t EXCEPT !.pc = "frame"]

\* (variant: stepping follows play() at once)
AfterPlayNoSleep(t) == [t EXCEPT !.pc = "frame"]

\* after play(wait_for_start=True): `if latency > 0: time.sleep(latency)`
AfterPlay(t) ==
  IF t.latency > 0 THEN [t EXCEPT !.pc = "offset_sleep", !.sleep = t.latency]
  ELSE [t EXCEPT !.pc = "frame"]

\* `self.audio_player.play(wait_for_start=True)`
PlayCall(c) ==
  /\ th[c].pc = "play_call"
  /\ IF PlayStarts
       THEN /\ HasFreeThread
            /\ \E d \in LaunchDelays : PlayEnter(d)
            /\ th' = [th EXCEPT ![c].pc = "play_wait", ![c].sleep = START_TIMEOUT_MS]
            /\ g' = [g EXCEPT ![c].playInv = TRUE]
       ELSE /\ th' = [th EXCEPT ![c] = AfterPlay(th[c])]
            /\ g' = [g EXCEPT ![c].playInv = TRUE, ![c].playRet = TRUE]
            /\ UNCHANGED audioVars
  /\ UNCHANGED << animVars, positions, cfgVars, tm, spc, ret, cntVars >>

\* play() raises after its locked section (`thread.start()` fails): the exception
\* leaves play_keyframes, and _is_playing stays set
PlayCallFault(c) ==
  /\ th[c].pc = "play_call" /\ PlayStarts /\ nFaults < MaxFaults
  /\ nFaults' = nFaults + 1
  /\ is_playing' = TRUE
  /\ play_started' = FALSE
  /\ th' = [th EXCEPT ![c].pc = "release"]
  /\ g' = [g EXCEPT ![c].playInv = TRUE, ![c].how = "exc"]
  /\ UNCHANGED << animVars, positions, cfgVars, current_process, procAlive, au, tm, spc, ret,
                  nStarts, nClaims, nStops >>

\* (variant: a wait that times out raises out of play_keyframes)
PlayWaitFatal(c) ==
  /\ th[c].pc = "play_wait"
  /\ play_started \/ th[c].sleep = 0
  /\ th' = [th EXCEPT ![c] = IF play_started THEN AfterPlay([th[c] EXCEPT !.sleep = 0])
                              ELSE [th[c] EXCEPT !.pc = "release", !.sleep = 0]]
  /\ g' = [g EXCEPT ![c].playRet = TRUE, ![c].how = IF play_started THEN g[c].how ELSE "exc"]
  /\ UNCHANGED << animVars, positions, cfgVars, audioVars, tm, spc, ret, cntVars >>

\* `self._play_started_event.wait(timeout=1.0)` returns: event set or timeout
PlayWaitDone(c) ==
  /\ th[c].pc = "play_wait"
  /\ play_started \/ th[c].sleep = 0
  /\ th' = [th EXCEPT ![c] = AfterPlay([th[c] EXCEPT !.sleep = 0])]
  /\ g' = [g EXCEPT ![c].playRet = TRUE]
  /\ UNCHANGED << animVars, positions, cfgVars, audioVars, tm, spc, ret, cntVars >>

OffsetWake(c) ==
  /\ th[c].pc = "offset_sleep" /\ th[c].sleep = 0
  /\ th' = [th EXCEPT ![c].pc = "frame"]
  /\ g' = [g EXCEPT ![c].offSlept = TRUE]
  /\ UNCHANGED << animVars, positions, cfgVars, audioVars, tm, spc, ret, cntVars >>

\* `for frame in keyframes: if self._stop_requested: break`, then the frame set-up
FrameStart(c) ==
  /\ th[c].pc = "frame"
  /\ LET t == th[c] IN
     IF t.fi > Len(t.frames)
       THEN /\ th' = [th EXCEPT ![c].pc = "release"]
            /\ g' = [g EXCEPT ![c].how = IF g[c].obs THEN "stopped" ELSE "completed"]
     ELSE IF FrameStopCheck
       THEN /\ th' = [th EXCEPT ![c].pc = "release"]
            /\ g' = [g EXCEPT ![c] = [NoteObserved(g[c]) EXCEPT !.how = "stopped"]]
     ELSE IF ~KeysParse(t.frames[t.fi])
       THEN /\ th' = [th EXCEPT ![c].pc = "release"]
            /\ g' = [g EXCEPT ![c].how = "exc"]
     ELSE LET tg == TargetsOf(t.frames[t.fi]) IN
          /\ th' = [th EXCEPT ![c].pc = "step",
                              ![c].targets = tg,
                              ![c].steps = StepsFor(t.frames[t.fi].duration),
                              ![c].starts = [ch \in DOMAIN tg |-> GetPosition(positions, ch)],
                              ![c].step_num = 0]
          /\ UNCHANGED g
  /\ UNCHANGED << animVars, positions, cfgVars, audioVars, tm, spc, ret, cntVars >>

\* (variant: range(steps), the last step is left out)
StepsDoneEarly(t) == t.step_num >= t.steps

\* range(steps + 1) is exhausted
StepsDone(t) == t.step_num > t.steps

\* `for step_num in range(steps + 1): if self._stop_requested: break`
StepCheck(c) ==
  /\ th[c].pc = "step"
  /\ LET t == th[c] IN
     IF StepsDone(t)
       THEN /\ th' = [th EXCEPT ![c].pc = "frame", ![c].fi = t.fi + 1]
            /\ UNCHANGED g
     ELSE IF StepStopCheck
       THEN /\ th' = [th EXCEPT ![c].pc = "frame", ![c].fi = t.fi + 1]
            /\ g' = [g EXCEPT ![c] = NoteObserved(g[c])]
     ELSE /\ th' = [th EXCEPT ![c].pc = "write"]
          /\ UNCHANGED g
  /\ UNCHANGED << animVars, positions, cfgVars, audioVars, tm, spc, ret, cntVars >>

\* the writes of one step, then `time.sleep(DELAY)`
StepWrite(c) ==
  /\ th[c].pc = "write"
  /\ LET t == th[c]
         chs == SeqOf(DOMAIN t.targets)
     IN /\ positions' = WriteChannels(positions, t, chs, Len(chs))
        /\ g' = [g EXCEPT ![c] = IF chs = << >> THEN g[c]
                                 ELSE NoteWrites(g[c], DOMAIN t.targets)]
  /\ th' = [th EXCEPT ![c].pc = "step_sleep", ![c].sleep = DELAY_MS]
  /\ UNCHANGED << animVars, cfgVars, audioVars, tm, spc, ret, cntVars >>

\* set_position raises on the k-th channel of the step: the exception leaves play_keyframes
StepWriteFault(c, k) ==
  /\ th[c].pc = "write" /\ nFaults < MaxFaults
  /\ LET t == th[c]
         chs == SeqOf(DOMAIN t.targets)
     IN /\ k \in 1..Len(chs)
        /\ positions' = WriteChannels(positions, t, chs, k - 1)
        /\ g' = [g EXCEPT ![c] = [(IF k = 1 THEN g[c]
                                   ELSE NoteWrites(g[c], {chs[i] : i \in 1..(k - 1)}))
                                  EXCEPT !.how = "exc"]]
  /\ nFaults' = nFaults + 1
  /\ th' = [th EXCEPT ![c].pc = "release"]
  /\ UNCHANGED << animVars, cfgVars, audioVars, tm, spc, ret, nStarts, nClaims, nStops >>

StepWake(c) ==
  /\ th[c].pc = "step_sleep" /\ th[c].sleep = 0
  /\ th' = [th EXCEPT ![c].pc = "step", ![c].step_num = th[c].step_num + 1]
  /\ UNCHANGED << animVars, positions, cfgVars, audioVars, tm, spc, ret, g, cntVars >>

\* ------------------------------------------------ delayed_audio (timer)
\* `time.sleep(abs(latency)); if not self._stop_requested:`
TimerCheck(c) ==
  /\ tm[c].pc = "sleep" /\ tm[c].left = 0
  /\ tm' = [tm EXCEPT ![c] = IF TimerStopCheck THEN NoTimer ELSE [tm[c] EXCEPT !.pc = "play"]]
  /\ UNCHANGED << animVars, positions, cfgVars, audioVars, th, spc, ret, g, cntVars >>

\* `self.audio_player.play(wait_for_start=False)`
TimerPlay(c) ==
  /\ tm[c].pc = "play"
  /\ IF PlayStarts
       THEN /\ HasFreeThread
            /\ \E d \in LaunchDelays : PlayEnter(d)
       ELSE UNCHANGED audioVars
  /\ tm' = [tm EXCEPT ![c] = NoTimer]
  /\ g' = [g EXCEPT ![c].tplayed = InSession(c)]
  /\ UNCHANGED << animVars, positions, cfgVars, th, spc, ret, cntVars >>


\* ------------------------------------------------------------------ time
SleepPcs == {"step_sleep", "sweep_sleep", "pause", "offset_sleep"}
SteppingPcs == {"frame", "step", "write", "step_sleep",
                "sweep", "sweep_write", "sweep_sleep", "pause_check", "pause"}

CallerSleeping(c) ==
  /\ th[c].sleep > 0
  /\ th[c].pc \in SleepPcs \/ (th[c].pc = "play_wait" /\ ~play_started)

PlayBlocked == PlayStarts /\ ~HasFreeThread

CallerReady(c) ==
  /\ th[c].pc # "idle"
  /\ ~CallerSleeping(c)
  /\ ~(th[c].pc = "play_call" /\ PlayBlocked)

TimerSleeping(c) == tm[c].pc = "sleep" /\ tm[c].left > 0
TimerReady(c) == tm[c].pc # "none" /\ ~TimerSleeping(c) /\ ~(tm[c].pc = "play" /\ PlayBlocked)

AudioSleeping(a) ==
  /\ au[a].left > 0
  /\ au[a].pc = "spawn" \/ (au[a].pc = "wait" /\ procAlive[a])
AudioReady(a) == au[a].pc # "none" /\ ~AudioSleeping(a)

NobodyReady ==
  /\ \A c \in Callers : ~CallerReady(c) /\ ~TimerReady(c)
  /\ \A a \in AThreads : ~AudioReady(a)
  /\ spc = "idle"

Remaining == {th[c].sleep : c \in {x \in Callers : CallerSleeping(x)}}
             \cup {tm[c].left : c \in {x \in Callers : TimerSleeping(x)}}
             \cup {au[a].left : a \in {x \in AThreads : AudioSleeping(x)}}

\* time passes until the next sleeper is due
Tick ==
  /\ NobodyReady
  /\ Remaining # {}
  /\ LET d == CHOOSE x \in Remaining : \A y \in Remaining : x <= y IN
     /\ th' = [c \in Callers |->
                 IF CallerSleeping(c) THEN [th[c] EXCEPT !.sleep = th[c].sleep - d] ELSE th[c]]
     /\ tm' = [c \in Callers |->
                 IF TimerSleeping(c)
                   THEN [tm[c] EXCEPT !.left = tm[c].left - d, !.elapsed = tm[c].elapsed + d]
                   ELSE tm[c]]
     /\ g' = [c \in Callers |->
                [g[c] EXCEPT
                   !.lag = IF stop_requested /\ th[c].pc \in SteppingPcs
                             THEN Min(g[c].lag + d, LagCap) ELSE g[c].lag]]
     /\ au' = [a \in AThreads |->
                 IF AudioSleeping(a) THEN [au[a] EXCEPT !.left = au[a].left - d] ELSE au[a]]
  /\ UNCHANGED << animVars, positions, cfgVars, is_playing, current_process, play_started,
                  procAlive, spc, ret, cntVars >>

\* ------------------------------------------------------------------ next
\* the first session plays the preset or any list of FrameLists; a later one a short list
FirstChoices ==
  {[kind |-> "preset", frames |-> << >>, wa |-> FALSE]}
  \cup {[kind |-> "kf", frames |-> f, wa |-> w] : f \in FrameLists, w \in BOOLEAN}
LaterChoices ==
  {[kind |-> "kf", frames |-> << Frame([k \in {"0"} |-> 1520], 20) >>, wa |-> w] : w \in {FALSE}}
StartChoices == IF nClaims = 0 THEN FirstChoices ELSE LaterChoices

Next ==
  \/ \E c \in Callers : StartAsync(c)
  \/ \E c \in Callers : Busy(c)
  \/ \E c \in Callers, s \in StartChoices : Claim(c, s.kind, s.frames, s.wa)
  \/ \E c \in Callers : ClaimReset(c)
  \/ \E c \in Callers : Release(c)
  \/ \E c \in Callers : SweepCheck(c)
  \/ \E c \in Callers : SweepWrite(c)
  \/ \E c \in Callers : SweepWriteFault(c)
  \/ \E c \in Callers : SweepWake(c)
  \/ \E c \in Callers : PauseCheck(c)
  \/ \E c \in Callers : PauseWake(c)
  \/ \E c \in Callers : Handshake(c)
  \/ \E c \in Callers : PlayCall(c)
  \/ \E c \in Callers : PlayCallFault(c)
  \/ \E c \in Callers : PlayWaitDone(c)
  \/ \E c \in Callers : OffsetWake(c)
  \/ \E c \in Callers : FrameStart(c)
  \/ \E c \in Callers : StepCheck(c)
  \/ \E c \in Callers : StepWrite(c)
  \/ \E c \in Callers, k \in 1..2 : StepWriteFault(c, k)
  \/ \E c \in Callers : StepWake(c)
  \/ \E c \in Callers : TimerCheck(c)
  \/ \E c \in Callers : TimerPlay(c)
  \/ \E a \in AThreads, clip \in ClipLengths : APopenOk(a, clip)
  \/ \E a \in AThreads : APopenFail(a)
  \/ \E a \in AThreads : AWaitDone(a)
  \/ \E a \in AThreads : AFinally(a)
  \/ StopSetFlag
  \/ StopAudio
  \/ Tick

Spec == Init /\ [][Next]_vars

\* ------------------------------------------------ one session, scheduled fairly
\* what the threads of the program do once started: every step but the calls the
\* environment makes (a start, a stop)
ThreadSteps ==
  \/ \E c \in Callers : ClaimReset(c)
  \/ \E c \in Callers : Release(c)
  \/ \E c \in Callers : SweepCheck(c)
  \/ \E c \in Callers : SweepWrite(c)
  \/ \E c \in Callers : SweepWake(c)
  \/ \E c \in Callers : PauseCheck(c)
  \/ \E c \in Callers : PauseWake(c)
  \/ \E c \in Callers : Handshake(c)
  \/ \E c \in Callers : PlayCall(c)
  \/ \E c \in Callers : PlayWaitDone(c)
  \/ \E c \in Callers : OffsetWake(c)
  \/ \E c \in Callers : FrameStart(c)
  \/ \E c \in Callers : StepCheck(c)
  \/ \E c \in Callers : StepWrite(c)
  \/ \E c \in Callers : StepWake(c)
  \/ \E c \in Callers : TimerCheck(c)
  \/ \E c \in Callers : TimerPlay(c)
  \/ \E a \in AThreads, clip \in ClipLengths : APopenOk(a, clip)
  \/ \E a \in AThreads : APopenFail(a)
  \/ \E a \in AThreads : AWaitDone(a)
  \/ \E a \in AThreads : AFinally(a)
  \/ StopAudio
  \/ Tick

\* one call of play_preset or play_keyframes, any stop() calls
LiveNext ==
  \/ \E s \in FirstChoices : nClaims = 0 /\ Claim("c1", s.kind, s.frames, s.wa)
  \/ StopSetFlag
  \/ ThreadSteps

\* every started thread keeps being scheduled and time passes
SpecLive == Init /\ [][LiveNext]_vars /\ WF_vars(ThreadSteps)

\* ------------------------------------------- the two locks, block by block
\* the threads inside a `with self._lock` block of AudioPlayer: play() (called by a
\* session or by its timer), the finally of _play_audio, stop()
AudioLockCount ==
  Cardinality({c \in Callers : th[c].pc = "play_locked"})
  + Cardinality({c \in Callers : tm[c].pc = "play_locked"})
  + Cardinality({a \in AThreads : au[a].pc = "finally_locked"})
  + (IF spc = "audio_locked" THEN 1 ELSE 0)

AudioLockFree == AudioLockCount = 0

\* play(wait_for_start=True): without a track `return False`, else `with self._lock`
PlayAcquire(c) ==
  /\ th[c].pc = "play_call"
  /\ IF ~track
       THEN /\ th' = [th EXCEPT ![c] = AfterPlay(th[c])]
            /\ g' = [g EXCEPT ![c].playInv = TRUE, ![c].playRet = TRUE]
       ELSE /\ AudioLockFree /\ ~PlayBlocked
            /\ th' = [th EXCEPT ![c].pc = "play_locked"]
            /\ g' = [g EXCEPT ![c].playInv = TRUE]
  /\ UNCHANGED << animVars, positions, cfgVars, audioVars, tm, spc, ret, cntVars >>

\* inside the block: `if self._is_playing: return False`, else mark playing and
\* clear the event; the block is left, the thread started, the event waited for
PlayLocked(c) ==
  /\ th[c].pc = "play_locked"
  /\ IF is_playing
       THEN /\ th' = [th EXCEPT ![c] = AfterPlay(th[c])]
            /\ g' = [g EXCEPT ![c].playRet = TRUE]
            /\ UNCHANGED audioVars
       ELSE /\ \E d \in LaunchDelays : PlayEnter(d)
            /\ th' = [th EXCEPT ![c].pc = "play_wait", ![c].sleep = START_TIMEOUT_MS]
            /\ UNCHANGED g
  /\ UNCHANGED << animVars, positions, cfgVars, tm, spc, ret, cntVars >>

\* delayed_audio: play(wait_for_start=False) reaches its block
TimerAcquire(c) ==
  /\ tm[c].pc = "play"
  /\ IF ~track
       THEN tm' = [tm EXCEPT ![c] = NoTimer]
       ELSE /\ AudioLockFree /\ ~PlayBlocked
            /\ tm' = [tm EXCEPT ![c].pc = "play_locked"]
  /\ UNCHANGED << animVars, positions, cfgVars, audioVars, th, spc, ret, g, cntVars >>

\* the timer's play() inside the block, and its return
TimerLocked(c) ==
  /\ tm[c].pc = "play_locked"
  /\ IF is_playing THEN UNCHANGED audioVars ELSE \E d \in LaunchDelays : PlayEnter(d)
  /\ tm' = [tm EXCEPT ![c] = NoTimer]
  /\ g' = [g EXCEPT ![c].tplayed = InSession(c)]
  /\ UNCHANGED << animVars, positions, cfgVars, th, spc, ret, cntVars >>

\* _play_audio reaches `finally: with self._lock`
AFinallyAcquire(a) ==
  /\ au[a].pc = "finally" /\ AudioLockFree
  /\ au' = [au EXCEPT ![a].pc = "finally_locked"]
  /\ UNCHANGED << animVars, positions, cfgVars, is_playing, current_process, play_started,
                  procAlive, th, tm, spc, ret, g, cntVars >>

\* `self._is_playing = False; self._current_process = None`, the block is left
AFinallyLocked(a) ==
  /\ au[a].pc = "finally_locked"
  /\ is_playing' = FALSE
  /\ current_process' = NoProc
  /\ au' = [au EXCEPT ![a] = NoAudioThread]
  /\ UNCHANGED << animVars, positions, cfgVars, play_started, procAlive,
                  th, tm, spc, ret, g, cntVars >>

\* Animator.stop() calls AudioPlayer.stop(), which reaches `with self._lock`
StopAcquire ==
  /\ spc \in {"audio", "audio_again"} /\ AudioLockFree
  /\ spc' = "audio_locked"
  /\ UNCHANGED << animVars, positions, cfgVars, audioVars, th, tm, ret, g, cntVars >>

\* inside the block: terminate, `wait(timeout=1)` on the player process (kill when
\* it expires), clear the fields; the block is left and stop() returns
StopLocked ==
  /\ spc = "audio_locked"
  /\ LET r == AudioStopResult(AudioState)
     IN /\ is_playing' = r.playing
        /\ current_process' = r.proc
        /\ procAlive' = r.alive
  /\ spc' = "idle"
  /\ UNCHANGED << animVars, positions, cfgVars, play_started, au, th, tm, ret, g, cntVars >>

\* the session reaches `finally: with self._lock`
ReleaseAcquire(c) ==
  /\ th[c].pc = "release" /\ lockOwner = "none"
  /\ lockOwner' = c
  /\ th' = [th EXCEPT ![c].pc = "release_locked"]
  /\ UNCHANGED << is_animating, stop_requested, positions, cfgVars, audioVars, tm, spc, ret, g,
                  cntVars >>

\* `self._is_animating = False`, the block is left and the call ends
ReleaseLocked(c) ==
  /\ th[c].pc = "release_locked" /\ lockOwner = c
  /\ is_animating' = FALSE
  /\ lockOwner' = "none"
  /\ th' = [th EXCEPT ![c] = IdleThread]
  /\ Return(c, IF g[c].how = "exc" THEN "raised" ELSE "true")
  /\ g' = [g EXCEPT ![c] = FreshHistory]
  /\ UNCHANGED << stop_requested, positions, cfgVars, audioVars, tm, spc, cntVars >>

\* the frame list of a session
LockFrames == { << Frame([k \in {"0"} |-> 1520], 20) >> }

\* what the started threads do: sessions, timers, play threads, and stop() past its flag
LockThreadSteps ==
  \/ \E c \in Callers : th[c].pc = "claim" /\ Busy(c)
  \/ \E c \in Callers, f \in LockFrames : th[c].pc = "claim" /\ Claim(c, "kf", f, TRUE)
  \/ th["c1"].pc = "claim" /\ nClaims = 0 /\ Claim("c1", "preset", << >>, FALSE)
  \/ \E c \in Callers : ClaimReset(c)
  \/ \E c \in Callers : SweepCheck(c)
  \/ \E c \in Callers : SweepWrite(c)
  \/ \E c \in Callers : SweepWake(c)
  \/ \E c \in Callers : PauseCheck(c)
  \/ \E c \in Callers : PauseWake(c)
  \/ \E c \in Callers : Handshake(c)
  \/ \E c \in Callers : PlayAcquire(c)
  \/ \E c \in Callers : PlayLocked(c)
  \/ \E c \in Callers : PlayWaitDone(c)
  \/ \E c \in Callers : OffsetWake(c)
  \/ \E c \in Callers : FrameStart(c)
  \/ \E c \in Callers : StepCheck(c)
  \/ \E c \in Callers : StepWrite(c)
  \/ \E c \in Callers : StepWake(c)
  \/ \E c \in Callers : ReleaseAcquire(c)
  \/ \E c \in Callers : ReleaseLocked(c)
  \/ \E c \in Callers : TimerCheck(c)
  \/ \E c \in Callers : TimerAcquire(c)
  \/ \E c \in Callers : TimerLocked(c)
  \/ \E a \in AThreads, clip \in ClipLengths : APopenOk(a, clip)
  \/ \E a \in AThreads : APopenFail(a)
  \/ \E a \in AThreads : AWaitDone(a)
  \/ \E a \in AThreads : AFinallyAcquire(a)
  \/ \E a \in AThreads : AFinallyLocked(a)
  \/ StopAcquire
  \/ StopLocked
  \/ Tick

\* the calls made from outside: play_preset_async or play_keyframes_async by either
\* caller, one stop()
LockNext ==
  \/ \E c \in Callers : StartAsync(c)
  \/ nStops = 0 /\ StopSetFlag
  \/ LockThreadSteps

\* a track is selected, the offset is of either sign
LockInit == Init /\ track

\* every started thread keeps being scheduled and time passes
SpecLocks == LockInit /\ [][LockNext]_vars /\ WF_vars(LockThreadSteps)

\* ------------------------------------------- one play_keyframes call, stepping
\* one direct call of play_keyframes without audio, over two frames whose targets
\* lie inside and outside the limits and whose durations give 1, 2 and 4 steps
StepTargets == {1400, 1461, 1533, 2600}
StepDurations == {0, 40, 80}
StepLists ==
  { << Frame([k \in {"0"} |-> a], d1),
       Frame([k \in {"0", "1"} |-> IF k = "0" THEN b ELSE 1470], d2) >> :
      a \in StepTargets, b \in StepTargets, d1 \in StepDurations, d2 \in StepDurations }

StepInit == EngineInit /\ ~track /\ interp = NoQuery /\ web = NoRequest

StepNext ==
  \/ \E f \in StepLists : nClaims = 0 /\ Claim("c1", "kf", f, FALSE)
  \/ ClaimReset("c1")
  \/ Handshake("c1")
  \/ FrameStart("c1")
  \/ StepCheck("c1")
  \/ StepWrite("c1")
  \/ StepWake("c1")
  \/ Release("c1")
  \/ StopSetFlag
  \/ StopAudio
  \/ Tick

SpecSteps == StepInit /\ [][StepNext]_vars

\* ------------------------------------- one async start, stopped after it returned
\* play_preset_async or play_keyframes_async is called once; stop() is called only
\* after that call has returned True and before the session it started has ended
StartedChoices == {x \in FirstChoices : ~x.wa}

StoppedNext ==
  \/ nStarts = 0 /\ StartAsync("c1")
  \/ \E x \in StartedChoices : th["c1"].pc = "claim" /\ Claim("c1", x.kind, x.frames, x.wa)
  \/ th["c1"].pc # "idle" /\ StopSetFlag
  \/ StopAudio
  \/ ClaimReset("c1")
  \/ SweepCheck("c1")
  \/ SweepWrite("c1")
  \/ SweepWake("c1")
  \/ PauseCheck("c1")
  \/ PauseWake("c1")
  \/ Handshake("c1")
  \/ FrameStart("c1")
  \/ StepCheck("c1")
  \/ StepWrite("c1")
  \/ StepWake("c1")
  \/ Release("c1")
  \/ Tick

SpecStopped == StepInit /\ [][StoppedNext]_vars

\* ------------------------------------- the async wrappers and their callback
\* each caller calls play_preset_async / play_keyframes_async once, with a
\* callback; `web` counts the calls of each callback and records what the
\* thread's play_preset / play_keyframes call had returned
NoCallbacks ==
  [req |-> "callback", called |-> [c \in Callers |-> 0],
   outcome |-> [c \in Callers |-> "none"]]

CallbackInit == EngineInit /\ ~track /\ interp = NoQuery /\ web = NoCallbacks

\* run(): the thread's play_preset / play_keyframes call has returned (an exception
\* ends the thread instead)
RunReturned(c) == th[c].pc = "idle" /\ ret[c] \in {"true", "busy"}

\* run(): `if callback: callback()`
Callback(c) ==
  /\ RunReturned(c) /\ web.called[c] = 0
  /\ web' = [web EXCEPT !.called[c] = 1, !.outcome[c] = ret[c]]
  /\ UNCHANGED << animVars, positions, servos, track, audio_offset_ms, interp, num_servos,
                  audioVars, th, tm, spc, ret, g, cntVars >>

CallbackNext ==
  \/ \E c \in Callers : ret[c] = "none" /\ th[c].pc = "idle" /\ StartAsync(c)
  \/ \E c \in Callers, x \in StartedChoices :
       th[c].pc = "claim" /\ Claim(c, x.kind, x.frames, x.wa)
  \/ \E c \in Callers : th[c].pc = "claim" /\ Busy(c)
  \/ \E c \in Callers : Callback(c)
  \/ \E c \in Callers : ClaimReset(c)
  \/ \E c \in Callers : SweepCheck(c)
  \/ \E c \in Callers : SweepWrite(c)
  \/ \E c \in Callers : SweepWake(c)
  \/ \E c \in Callers : PauseCheck(c)
  \/ \E c \in Callers : PauseWake(c)
  \/ \E c \in Callers : Handshake(c)
  \/ \E c \in Callers : FrameStart(c)
  \/ \E c \in Callers : StepCheck(c)
  \/ \E c \in Callers : StepWrite(c)
  \/ \E c \in Callers : StepWake(c)
  \/ \E c \in Callers : Release(c)
  \/ Tick

SpecCallback == CallbackInit /\ [][CallbackNext]_vars

\* ------------------------------------- one play_keyframes call, one duration
\* one direct call of play_keyframes without audio over one frame that holds
\* channel 0 at the center for a duration below, at, between and above multiples
\* of the step interval
KeyframeDurations == {0, 10, 20, 30, 50, 580, 600}
DurationLists ==
  { << Frame([k \in {"0"} |-> CENTER_PULSE], d) >> : d \in KeyframeDurations }

DurationNext ==
  \/ \E f \in DurationLists : nClaims = 0 /\ Claim("c1", "kf", f, FALSE)
  \/ ClaimReset("c1")
  \/ Handshake("c1")
  \/ FrameStart("c1")
  \/ StepCheck("c1")
  \/ StepWrite("c1")
  \/ StepWake("c1")
  \/ Release("c1")
  \/ Tick

SpecDuration == StepInit /\ [][DurationNext]_vars

\* ------------------------------------------------- one play_preset call
\* one direct call of play_preset, on servos configured with narrow limits around
\* the default center or with limits and a center of their own
PresetSettings ==
  { InitSettings, [min_pulse |-> 1300, max_pulse |-> 1700, center_pulse |-> 1400] }

PresetInit ==
  /\ \E st \in PresetSettings : ControllerInit(st)
  /\ IdleInit /\ ~track /\ interp = NoQuery /\ web = NoRequest

PresetNext ==
  \/ nClaims = 0 /\ Claim("c1", "preset", << >>, FALSE)
  \/ ClaimReset("c1")
  \/ SweepCheck("c1")
  \/ SweepWrite("c1")
  \/ SweepWake("c1")
  \/ PauseCheck("c1")
  \/ PauseWake("c1")
  \/ Release("c1")
  \/ StopSetFlag
  \/ StopAudio
  \/ Tick

SpecPreset == PresetInit /\ [][PresetNext]_vars

\* ----------------------------------------- web layer: _get_value_at_time
\* curves and queries of the interpolator
MaxPoints == 3
CurveTimes == {0, 50, 100}
CurvePulses == {1000, 1001, 3000}
QueryTimes == {0, 25, 50, 75, 100, 125}
CurvePoints == [time : CurveTimes, pulse : CurvePulses]
Curves == UNION {[1..n -> CurvePoints] : n \in 0..MaxPoints}

\* Python round() of the rational n / d, d > 0: to nearest, ties to even.  The
\* quotients the code forms over CurveTimes and QueryTimes (k/2, k/4) are exact floats.
RoundHalfEven(n, d) ==
  LET q == n \div d
      r == n % d
  IN IF 2 * r < d THEN q
     ELSE IF 2 * r > d THEN q + 1
     ELSE IF q % 2 = 0 THEN q ELSE q + 1

\* (variant: a point at the query time does not count as before)
StrictlyBefore(p, time) == p.time < time

\* `if p["time"] <= time:`
AtOrBefore(p, time) == p.time <= time

\* (variant: a point counts as after only once a before has been seen)
RECURSIVE ScanAfterBefore(_, _, _, _)
ScanAfterBefore(points, time, i, ba) ==
  IF i > Len(points) THEN ba
  ELSE ScanAfterBefore(points, time, i + 1,
         IF AtOrBefore(points[i], time) THEN [ba EXCEPT !.before = i]
         ELSE IF ba.after = 0 /\ ba.before # 0 THEN [ba EXCEPT !.after = i]
         ELSE ba)

\* `for p in points: if p["time"] <= time: before = p  elif after is None: after = p`
\* from index i on; before / after are indices into points, 0 for None
RECURSIVE ScanPoints(_, _, _, _)
ScanPoints(points, time, i, ba) ==
  IF i > Len(points) THEN ba
  ELSE ScanPoints(points, time, i + 1,
         IF AtOrBefore(points[i], time) THEN [ba EXCEPT !.before = i]
         ELSE IF ba.after = 0 THEN [ba EXCEPT !.after = i]
         ELSE ba)

Scanned(points, time) == ScanPoints(points, time, 1, [before |-> 0, after |-> 0])

\* (variant: the elapsed time is taken from 0, not from the point before)
FracNumFromZero(before, time) == time

\* numerator and divisor of `t = (time - before["time"]) / (after["time"] - before["time"])`
FracNum(before, time) == time - before.time
FracDiv(before, after) == after.time - before.time

\* (variant: the hold branches answer the default)
HoldDefault(p, default) == default

\* `return after["pulse"]` / `return before["pulse"]`
HoldValue(p, default) == p.pulse

\* `return round(before["pulse"] + (after["pulse"] - before["pulse"]) * t)`
Interpolated(before, after, time) ==
  RoundHalfEven(before.pulse * FracDiv(before, after)
                  + (after.pulse - before.pulse) * FracNum(before, time),
                FracDiv(before, after))

GetValueAtTime(points, time, default) ==
  IF points = << >> THEN default
  ELSE LET ba == Scanned(points, time) IN
       IF ba.before = 0 /\ ba.after = 0 THEN default
       ELSE IF ba.before = 0 THEN HoldValue(points[ba.after], default)
       ELSE IF ba.after = 0 THEN HoldValue(points[ba.before], default)
       ELSE Interpolated(points[ba.before], points[ba.after], time)

\* a call of _get_value_at_time on any curve and query time
CurveInit ==
  /\ EngineInit /\ ~track
  /\ web = NoRequest
  /\ interp \in [points : Curves, time : QueryTimes, default : {CENTER_PULSE},
                done : {FALSE}, out : {0}]

Interpolate ==
  /\ ~interp.done
  /\ interp' = [interp EXCEPT !.done = TRUE,
                              !.out = GetValueAtTime(interp.points, interp.time, interp.default)]
  /\ UNCHANGED << animVars, positions, servos, track, audio_offset_ms, web, num_servos,
                  audioVars, th, tm, spc, ret, g, cntVars >>

CurveNext == Interpolate

SpecCurve == CurveInit /\ [][CurveNext]_vars

\* ------------------------------------------- AudioPlayer called directly
\* play() and stop() called on the player itself, with the play threads; web
\* records the last call made and what it returned (observation)
AudioIdle ==
  [req |-> "audio", last |-> "none", returned |-> FALSE, out |-> FALSE,
   wait |-> FALSE, launched |-> FALSE, waited |-> 0]

AudioInit ==
  /\ ControllerInit(InitSettings)
  /\ IdleInit /\ audio_offset_ms = 0
  /\ interp = NoQuery /\ web = AudioIdle

\* (variant: play() starts a thread whether or not playback is marked active)
PlayRefusedNever == FALSE

\* `with self._lock: if self._is_playing: return False`
PlayRefused == is_playing

\* AudioPlayer.play(wait_for_start) called by thread c, up to its return or its wait
DirectPlay(c, wait) ==
  /\ th[c].pc = "idle" /\ nStarts < MaxStarts
  /\ nStarts' = nStarts + 1
  /\ IF ~track \/ PlayRefused
       THEN /\ web' = [AudioIdle EXCEPT !.last = "play", !.returned = TRUE, !.wait = wait]
            /\ UNCHANGED << audioVars, th >>
       ELSE /\ HasFreeThread
            /\ \E d \in LaunchDelays : PlayEnter(d)
            /\ IF wait
                 THEN /\ th' = [th EXCEPT ![c].pc = "play_wait", ![c].sleep = START_TIMEOUT_MS]
                      /\ web' = [AudioIdle EXCEPT !.last = "play", !.wait = wait,
                                                  !.launched = TRUE]
                 ELSE /\ UNCHANGED th
                      /\ web' = [AudioIdle EXCEPT !.last = "play", !.returned = TRUE,
                                                  !.out = TRUE, !.launched = TRUE]
  /\ UNCHANGED << animVars, positions, servos, track, audio_offset_ms, interp, num_servos,
                  tm, spc, ret, g, nClaims, nStops, nFaults >>

\* `self._play_started_event.wait(timeout=1.0)` returns, then `return True`
DirectPlayReturn(c) ==
  /\ th[c].pc = "play_wait"
  /\ play_started \/ th[c].sleep = 0
  /\ th' = [th EXCEPT ![c] = IdleThread]
  /\ web' = IF web.last = "play" /\ ~web.returned
              THEN [web EXCEPT !.returned = TRUE, !.out = TRUE,
                               !.waited = START_TIMEOUT_MS - th[c].sleep]
              ELSE web
  /\ UNCHANGED << animVars, positions, servos, track, audio_offset_ms, interp, num_servos,
                  audioVars, tm, spc, ret, g, cntVars >>

\* AudioPlayer.stop(), all of it under the player's lock
DirectStop ==
  /\ nStops < MaxStops
  /\ nStops' = nStops + 1
  /\ LET r == AudioStopResult(AudioState)
     IN /\ is_playing' = r.playing
        /\ current_process' = r.proc
        /\ procAlive' = r.alive
  /\ web' = [AudioIdle EXCEPT !.last = "stop", !.returned = TRUE]
  /\ UNCHANGED << animVars, positions, servos, track, audio_offset_ms, interp, num_servos,
                  play_started, au, th, tm, spc, ret, g, nStarts, nClaims, nFaults >>

AudioNext ==
  \/ \E c \in Callers, wait \in BOOLEAN : DirectPlay(c, wait)
  \/ \E c \in Callers : DirectPlayReturn(c)
  \/ DirectStop
  \/ \E a \in AThreads, clip \in ClipLengths : APopenOk(a, clip)
  \/ \E a \in AThreads : APopenFail(a)
  \/ \E a \in AThreads : AWaitDone(a)
  \/ \E a \in AThreads : AFinally(a)
  \/ Tick

SpecAudio == AudioInit /\ [][AudioNext]_vars

\* ------------------------------------------- ServoController as a register
\* positions and the store's servos are dicts: here functions on the channels present
MAX_SERVOS == 16
ServoChannels == {0, 1, 2}
RequestedPulses == {1400, 1600}
RequestedCounts == {0, 1, 2, 3}
RequestedSettings == PresetSettings

Put(f, k, v) == [x \in DOMAIN f \cup {k} |-> IF x = k THEN v ELSE f[x]]
Keep(f, K) == [x \in DOMAIN f \cap K |-> f[x]]

\* ServoSettings(): the defaults
DefaultSettings ==
  [min_pulse |-> MIN_PULSE, max_pulse |-> MAX_PULSE, center_pulse |-> CENTER_PULSE]

\* ServoConfigStore.get_servo: `if channel not in self.servos: self.servos[channel] = ...`
GetServo(store, ch) == IF ch \in DOMAIN store THEN store ELSE Put(store, ch, DefaultSettings)

\* (variant: set_position stores the position as requested)
ClampToServoNone(settings, position) == position

\* `position = max(min_pos, min(max_pos, position))`
ClampToServo(settings, position) ==
  Max(settings.min_pulse, Min(settings.max_pulse, position))

\* the controller's state c = [store, posns, last] after set_position(ch, position);
\* last records what each channel's most recent set_position returned (observation)
DoSetPosition(c, ch, position) ==
  LET store == GetServo(c.store, ch)
      applied == ClampToServo(store[ch], position)
  IN [store |-> store, posns |-> Put(c.posns, ch, applied),
      last |-> Put(c.last, ch, applied), out |-> applied]

\* `return self.positions.get(channel, servo_config.center_pulse)`
DoGetPosition(c, ch) ==
  LET store == GetServo(c.store, ch)
  IN [c EXCEPT !.store = store,
               !.out = IF ch \in DOMAIN c.posns THEN c.posns[ch] ELSE store[ch].center_pulse]

\* `for i in range(old_count, num_servos): self.set_position(i, center_pulse)`, from i on
RECURSIVE CenterNew(_, _, _)
CenterNew(c, i, n) ==
  IF i >= n THEN c
  ELSE CenterNew(DoSetPosition(c, i, GetServo(c.store, i)[i].center_pulse), i + 1, n)

\* ServoConfigStore.set_num_servos on the store: add the missing, remove the extra
StoreSetNum(store, n) ==
  [ch \in 0..(n - 1) |-> IF ch \in DOMAIN store THEN store[ch] ELSE DefaultSettings]

ServoState == [store |-> servos, posns |-> positions, last |-> web.last, out |-> 0]

ServoInit ==
  /\ ControllerInit(InitSettings)
  /\ IdleInit /\ ~track /\ interp = NoQuery
  /\ web = [req |-> "servo", op |-> "init", ch |-> 0, arg |-> 0, out |-> 0,
            last |-> positions, live |-> DOMAIN positions]

\* ServoController.set_position(ch, position)
SetPositionCall(ch, position) ==
  /\ LET r == DoSetPosition(ServoState, ch, position) IN
       /\ servos' = r.store
       /\ positions' = r.posns
       /\ web' = [web EXCEPT !.op = "set", !.ch = ch, !.arg = position, !.out = r.out,
                             !.last = r.last, !.live = web.live \cup {ch}]
  /\ UNCHANGED << animVars, track, audio_offset_ms, interp, num_servos, audioVars,
                  th, tm, spc, ret, g, cntVars >>

\* ServoController.get_position(ch)
GetPositionCall(ch) ==
  /\ LET r == DoGetPosition(ServoState, ch) IN
       /\ servos' = r.store
       /\ web' = [web EXCEPT !.op = "get", !.ch = ch, !.arg = 0, !.out = r.out]
  /\ UNCHANGED << animVars, positions, track, audio_offset_ms, interp, num_servos, audioVars,
                  th, tm, spc, ret, g, cntVars >>

\* ServoController.set_servo_config(ch, settings)
SetServoConfigCall(ch, settings) ==
  /\ servos' = Put(servos, ch, settings)
  /\ web' = [web EXCEPT !.op = "config", !.ch = ch, !.arg = 0, !.out = 0]
  /\ UNCHANGED << animVars, positions, track, audio_offset_ms, interp, num_servos, audioVars,
                  th, tm, spc, ret, g, cntVars >>

\* ServoController.set_num_servos(count)
SetNumServosCall(count) ==
  /\ LET n == Max(1, Min(MAX_SERVOS, count))
         r == CenterNew([ServoState EXCEPT !.store = StoreSetNum(servos, n)], num_servos, n)
     IN /\ num_servos' = n
        /\ servos' = r.store
        /\ positions' = Keep(r.posns, 0..(n - 1))
        /\ web' = [web EXCEPT !.op = "num", !.ch = 0, !.arg = count, !.out = 0,
                              !.last = r.last,
                              !.live = (web.live \cup (num_servos..(n - 1))) \cap (0..(n - 1))]
  /\ UNCHANGED << animVars, track, audio_offset_ms, interp, audioVars,
                  th, tm, spc, ret, g, cntVars >>

ServoNext ==
  \/ \E ch \in ServoChannels, p \in RequestedPulses : SetPositionCall(ch, p)
  \/ \E ch \in ServoChannels : GetPositionCall(ch)
  \/ \E ch \in ServoChannels, st \in RequestedSettings : SetServoConfigCall(ch, st)
  \/ \E n \in RequestedCounts : SetNumServosCall(n)

SpecServo == ServoInit /\ [][ServoNext]_vars

\* ------------------------------------------- web layer: the writing handlers
\* POST /servo, /center, /servo/<id>/config and /config, each handled by a request
\* thread of its own: first the test of animator.is_animating, then the write
NoData == [keys |-> {}, min_pulse |-> 0, max_pulse |-> 0, center_pulse |-> 0]

\* no request under way; `during` records whether the last write fell in a session
WebIdle ==
  [req |-> "none", pc |-> "done", ch |-> 0, pulse |-> 0, data |-> NoData, count |-> 0,
   status |-> "none", during |-> FALSE]

ServoPost(ch, pulse) == [WebIdle EXCEPT !.req = "servo", !.ch = ch, !.pulse = pulse]
CenterPost == [WebIdle EXCEPT !.req = "center"]
ConfigPost(ch, data) == [WebIdle EXCEPT !.req = "config", !.ch = ch, !.data = data]
CountPost(count) == [WebIdle EXCEPT !.req = "count", !.count = count]

\* `if channel < 0 or channel >= servo.num_servos: return ... 400`
InvalidChannel(r) == r.req = "config" /\ (r.ch < 0 \/ r.ch >= num_servos)

\* `if animator.is_animating: return ... 409`
WebBusy == is_animating

\* the handler up to its busy answer
WebCheck(r) ==
  /\ web.pc = "done"
  /\ web' = IF InvalidChannel(r) THEN [r EXCEPT !.status = "error"]
            ELSE IF WebBusy THEN [r EXCEPT !.status = "busy"]
            ELSE [r EXCEPT !.pc = "write"]
  /\ UNCHANGED << animVars, positions, servos, track, audio_offset_ms, interp, num_servos,
                  audioVars, th, tm, spc, ret, g, cntVars >>

WebDone(status) == web' = [web EXCEPT !.pc = "done", !.status = status, !.during = is_animating]

\* POST /servo: `actual_position = servo.set_position(channel, position)`
ServoPostWrite ==
  /\ web.req = "servo" /\ web.pc = "write"
  /\ LET store == GetServo(servos, web.ch) IN
       /\ servos' = store
       /\ positions' = Put(positions, web.ch, ClampToServo(store[web.ch], web.pulse))
  /\ WebDone("ok")
  /\ UNCHANGED << animVars, track, audio_offset_ms, interp, num_servos,
                  audioVars, th, tm, spc, ret, g, cntVars >>

\* POST /center: `servo.center_all()`
CenterPostWrite ==
  /\ web.req = "center" /\ web.pc = "write"
  /\ positions' = [ch \in DOMAIN positions \cup 0..(num_servos - 1) |->
                     IF ch < num_servos
                       THEN ClampToServo(servos[ch], servos[ch].center_pulse)
                       ELSE positions[ch]]
  /\ WebDone("ok")
  /\ UNCHANGED << animVars, servos, track, audio_offset_ms, interp, num_servos,
                  audioVars, th, tm, spc, ret, g, cntVars >>

\* `int(data.get("min_pulse", current.min_pulse))`, and so for max_pulse, center_pulse
RequestedLimits(current, data) ==
  [min_pulse |-> IF "min_pulse" \in data.keys THEN data.min_pulse ELSE current.min_pulse,
   max_pulse |-> IF "max_pulse" \in data.keys THEN data.max_pulse ELSE current.max_pulse,
   center_pulse |-> IF "center_pulse" \in data.keys THEN data.center_pulse
                    ELSE current.center_pulse]

\* `if min_pulse < MIN_PULSE: min_pulse = MIN_PULSE; if max_pulse > MAX_PULSE: ...`
ClampLimits(st) ==
  [st EXCEPT !.min_pulse = IF st.min_pulse < MIN_PULSE THEN MIN_PULSE ELSE st.min_pulse,
             !.max_pulse = IF st.max_pulse > MAX_PULSE THEN MAX_PULSE ELSE st.max_pulse]

\* (variant: equal limits are let through)
LimitsRejectedAbove(st) == st.min_pulse > st.max_pulse

\* `if new_settings.min_pulse >= new_settings.max_pulse: return ... 400`
LimitsRejected(st) == st.min_pulse >= st.max_pulse

\* `if not (min <= center <= max): center_pulse = (min_pulse + max_pulse) // 2`
Recenter(st) ==
  IF st.min_pulse <= st.center_pulse /\ st.center_pulse <= st.max_pulse THEN st
  ELSE [st EXCEPT !.center_pulse = (st.min_pulse + st.max_pulse) \div 2]

\* POST /servo/<id>/config past its checks: validate, then `servo.set_servo_config`
ConfigPostWrite ==
  /\ web.req = "config" /\ web.pc = "write"
  /\ LET new_settings == ClampLimits(RequestedLimits(GetServo(servos, web.ch)[web.ch], web.data))
     IN IF LimitsRejected(new_settings)
          THEN /\ WebDone("error")
               /\ UNCHANGED servos
          ELSE /\ WebDone("ok")
               /\ servos' = Put(servos, web.ch, Recenter(new_settings))
  /\ UNCHANGED << animVars, positions, track, audio_offset_ms, interp, num_servos,
                  audioVars, th, tm, spc, ret, g, cntVars >>

\* POST /config with numServos: `servo.set_num_servos(new_count)`
CountPostWrite ==
  /\ web.req = "count" /\ web.pc = "write"
  /\ LET n == Max(1, Min(MAX_SERVOS, web.count))
         r == CenterNew([store |-> StoreSetNum(servos, n), posns |-> positions,
                         last |-> << >>, out |-> 0], num_servos, n)
     IN /\ num_servos' = n
        /\ servos' = r.store
        /\ positions' = Keep(r.posns, 0..(n - 1))
  /\ WebDone("ok")
  /\ UNCHANGED << animVars, track, audio_offset_ms, interp,
                  audioVars, th, tm, spc, ret, g, cntVars >>

\* the requests made while a keyframe session on channel 0 starts, steps and ends
FullData(a, b, m) ==
  [keys |-> {"min_pulse", "max_pulse", "center_pulse"},
   min_pulse |-> a, max_pulse |-> b, center_pulse |-> m]
WebRequests ==
  { ServoPost(0, 1400), ServoPost(1, 1600), CenterPost, CountPost(1), CountPost(3),
    ConfigPost(0, FullData(1300, 1700, 1400)), ConfigPost(2, FullData(1300, 1700, 1400)) }

WebInit ==
  /\ ControllerInit(DefaultSettings)
  /\ IdleInit /\ ~track
  /\ interp = NoQuery /\ web = WebIdle

\* the keyframes POST /play hands to play_keyframes_async, or a direct call
WebFrames == << Frame([k \in {"0"} |-> 1540], 40) >>

WebNext ==
  \/ \E r \in WebRequests : WebCheck(r)
  \/ ServoPostWrite
  \/ CenterPostWrite
  \/ ConfigPostWrite
  \/ CountPostWrite
  \/ StartAsync("c1")
  \/ nClaims = 0 /\ Claim("c1", "kf", WebFrames, FALSE)
  \/ ClaimReset("c1")
  \/ Handshake("c1")
  \/ FrameStart("c1")
  \/ StepCheck("c1")
  \/ StepWrite("c1")
  \/ StepWake("c1")
  \/ Release("c1")
  \/ Tick

SpecWeb == WebInit /\ [][WebNext]_vars

\* the bodies POST /servo/<id>/config is sent: any of the three keys, with values
\* below, inside and above the global range, equal limits and limits in disorder
ConfigMins == {700, 1300, 1700, 2600}
ConfigMaxs == {700, 1300, 1700, 2600}
ConfigCenters == {1400, 3000}
ConfigKeys ==
  { {"min_pulse", "max_pulse", "center_pulse"}, {"min_pulse"}, {"max_pulse"}, {"center_pulse"} }
DataOf(K, a, b, m) ==
  [keys |-> K,
   min_pulse |-> IF "min_pulse" \in K THEN a ELSE 0,
   max_pulse |-> IF "max_pulse" \in K THEN b ELSE 0,
   center_pulse |-> IF "center_pulse" \in K THEN m ELSE 0]
ConfigData ==
  { DataOf(K, a, b, m) : K \in ConfigKeys, a \in ConfigMins, b \in ConfigMaxs, m \in ConfigCenters }
ConfigRequests == { ConfigPost(ch, d) : ch \in {0, 2}, d \in ConfigData }

\* requests to /servo/<id>/config on default settings, before, during and after a
\* session that writes nothing
ConfigNext ==
  \/ \E r \in ConfigRequests : WebCheck(r)
  \/ ConfigPostWrite
  \/ nClaims = 0 /\ Claim("c1", "kf", << Frame(NoTargets, 0) >>, FALSE)
  \/ ClaimReset("c1")
  \/ Handshake("c1")
  \/ FrameStart("c1")
  \/ StepCheck("c1")
  \/ StepWrite("c1")
  \/ StepWake("c1")
  \/ Release("c1")
  \/ Tick

SpecConfig == WebInit /\ [][ConfigNext]_vars

\* ------------------------------------------- the latency offset's life
\* the range the offset setter clamps to
OFFSET_MIN == 0 - 500
OFFSET_MAX == 1000

\* what servo_config.json holds as audio_offset_ms when the program starts, and the
\* offsets POST /audio/offset is asked for
LoadedOffsets == {0 - 600, 0 - 40, 0, 20, 1200}
RequestedOffsets == {0 - 2000, 0 - 40, 20, 5000}

\* audio_offset_ms setter: `value = max(-500, min(1000, value))`
OffsetSetter(value) == Clamp(OFFSET_MIN, OFFSET_MAX, value)

\* ServoConfigStore.load / from_dict: `audio_offset_ms = data.get("audio_offset_ms", 150)`
FromDictOffset(stored) == stored

\* the program starts on a config file; a track may be selected
OffsetInit ==
  /\ ControllerInit(InitSettings)
  /\ is_animating = FALSE /\ stop_requested = FALSE /\ lockOwner = "none"
  /\ track \in BOOLEAN
  /\ audio_offset_ms \in {FromDictOffset(v) : v \in LoadedOffsets}
  /\ is_playing = FALSE /\ current_process = NoProc /\ play_started = FALSE
  /\ procAlive = [a \in AThreads |-> FALSE]
  /\ th = [c \in Callers |-> IdleThread]
  /\ tm = [c \in Callers |-> NoTimer]
  /\ au = [a \in AThreads |-> NoAudioThread]
  /\ spc = "idle"
  /\ ret = [c \in Callers |-> "none"]
  /\ g = [c \in Callers |-> FreshHistory]
  /\ nStarts = 0 /\ nClaims = 0 /\ nStops = 0 /\ nFaults = 0
  /\ interp = NoQuery /\ web = NoRequest

\* POST /audio/offset: `audio_player.audio_offset_ms = int(data.get("offset_ms", 150))`
PostOffset(offset) ==
  /\ audio_offset_ms' = OffsetSetter(offset)
  /\ web' = [req |-> "offset", offset_ms |-> audio_offset_ms']
  /\ UNCHANGED << animVars, positions, servos, track, interp, num_servos, audioVars,
                  th, tm, spc, ret, g, cntVars >>

\* one play_keyframes call with audio, the play threads, the timer, and offset updates
OffsetNext ==
  \/ \E v \in RequestedOffsets : PostOffset(v)
  \/ nClaims = 0 /\ Claim("c1", "kf", << Frame([k \in {"0"} |-> 1520], 20) >>, TRUE)
  \/ ClaimReset("c1")
  \/ Handshake("c1")
  \/ PlayCall("c1")
  \/ PlayWaitDone("c1")
  \/ OffsetWake("c1")
  \/ FrameStart("c1")
  \/ StepCheck("c1")
  \/ StepWrite("c1")
  \/ StepWake("c1")
  \/ Release("c1")
  \/ TimerCheck("c1")
  \/ TimerPlay("c1")
  \/ \E a \in AThreads, clip \in ClipLengths : APopenOk(a, clip)
  \/ \E a \in AThreads : AWaitDone(a)
  \/ \E a \in AThreads : AFinally(a)
  \/ Tick

SpecOffset == OffsetInit /\ [][OffsetNext]_vars

\* ------------------------------------- web layer: play_saved_animation
SAMPLE_INTERVAL == 50

\* the saved animation: its duration, its curves (by servo id, as JSON keys) and
\* whether it names an audio file that exists
AnimDurations == {0, 50, 100, 120}
AnimCurves ==
  { << >>,
    << [time |-> 0, pulse |-> 1000], [time |-> 100, pulse |-> 1001] >>,
    << [time |-> 50, pulse |-> 3000] >> }
Animations ==
  { [duration_ms |-> d, curves |-> cv, audio |-> a] :
      d \in AnimDurations,
      cv \in UNION {[K -> AnimCurves] : K \in {{"0"}, {"0", "1"}}},
      a \in BOOLEAN }

\* `for t in range(0, animation.duration_ms + 1, sample_interval)`: the i-th sample time
SampleCount(duration) == IF duration < 0 THEN 0 ELSE duration \div SAMPLE_INTERVAL + 1
SampleTime(i) == (i - 1) * SAMPLE_INTERVAL

\* `_get_value_at_time(points, t, CENTER_PULSE)`
SampleDefault(servo_id) == CENTER_PULSE

\* the keyframes generated from the curves
SampleKeyframes(animation) ==
  [i \in 1..SampleCount(animation.duration_ms) |->
     Frame([k \in DOMAIN animation.curves |->
              GetValueAtTime(animation.curves[k], SampleTime(i), SampleDefault(k))],
           SAMPLE_INTERVAL)]

SampleInit ==
  /\ \E st \in PresetSettings : ControllerInit(st)
  /\ IdleInit /\ interp = NoQuery
  /\ web \in {[req |-> "play_saved", animation |-> a, status |-> "none", keyframes |-> << >>] :
                a \in Animations}

\* POST /animations/play/<filename>: busy check, sampling, set_current_audio,
\* play_keyframes_async (whose thread is left pending at its claim)
PlaySavedAnimation ==
  /\ web.req = "play_saved" /\ web.status = "none"
  /\ IF is_animating
       THEN /\ web' = [web EXCEPT !.status = "busy"]
            /\ UNCHANGED << track, th, ret, nStarts >>
     ELSE LET kf == SampleKeyframes(web.animation) IN
       IF kf = << >>
         THEN /\ web' = [web EXCEPT !.status = "no_data"]
              /\ UNCHANGED << track, th, ret, nStarts >>
         ELSE /\ web' = [web EXCEPT !.status = "started", !.keyframes = kf]
              /\ track' = (track \/ web.animation.audio)
              /\ IF AsyncBusy
                   THEN Return("c1", "refused") /\ UNCHANGED th
                   ELSE /\ Return("c1", "started")
                        /\ th' = [th EXCEPT !["c1"] =
                                    [IdleThread EXCEPT !.pc = "claim", !.async = TRUE,
                                                       !.frames = kf,
                                                       !.with_audio = web.animation.audio]]
              /\ nStarts' = nStarts + 1
  /\ UNCHANGED << animVars, positions, servos, audio_offset_ms, interp, num_servos,
                  audioVars, tm, spc, g, nClaims, nStops, nFaults >>

SampleNext == PlaySavedAnimation

SpecSample == SampleInit /\ [][SampleNext]_vars

\* ====================================================================
\* Properties
\* ====================================================================
\* callers between their successful claim and their release
Sessions == {c \in Callers : InSession(c)}

\* the step is a call of play_preset / play_keyframes by c that returns False
BusyReturn(c) ==
  /\ ret'[c] = "busy"
  /\ \/ th[c].pc = "claim" /\ th'[c].pc = "idle"
     \/ th[c].pc = "idle" /\ th' = th /\ nStarts' = nStarts + 1

\* the step belongs to a call of Animator.stop()
StopStep == spc' # spc

\* C1: at most one call is between its successful claim of the active flag and its
\* release, the flag is set while one is, and a call returns False only while
\* another call holds the slot.
C1_MutualExclusion ==
  /\ [](Cardinality(Sessions) <= 1 /\ (Sessions # {} => is_animating))
  /\ [][\A c \in Callers : BusyReturn(c) => Sessions \ {c} # {}]_vars

\* one caller holds the slot and the other's call has returned False
C1_Witness ==
  \E c, d \in Callers : c # d /\ InSession(c) /\ ret[d] = "busy"

\* C2: a call that returns False changes nothing but its own return: no position is
\* written, no audio state changes, the active flag and the stop request stay as they
\* were, and the running session's thread, timer and history are untouched.
C2_BusyNoSideEffects ==
  [][\A c \in Callers : BusyReturn(c) =>
        /\ UNCHANGED << is_animating, stop_requested, lockOwner, positions, servos,
                        audioVars, tm, g >>
        /\ \A d \in Callers \ {c} : th'[d] = th[d]]_vars

\* a call has returned False while the other caller's session runs with a stop pending
C2_Witness ==
  \E c, d \in Callers :
    /\ c # d /\ ret[c] = "busy"
    /\ InSession(d) /\ stop_requested /\ g[d].stopd /\ is_animating

\* C3: whenever no claimed call is executing, the active flag is clear and the lock
\* is free, whatever way the last session ended (frames exhausted, stop observed,
\* exception), so the next start can claim.
C3_GuaranteedRelease ==
  Sessions = {} => ~is_animating /\ lockOwner = "none"

\* a session ended by an exception, and a later call holds the slot
C3_Witness ==
  \E c, d \in Callers : ret[c] = "raised" /\ InSession(d)

\* C4: a session writes no position after its loop has observed the stop request, and
\* while the request stands it writes each channel at most once (the step that was
\* already past its check).
C4_NoWriteAfterStopObserved ==
  \A c \in Callers : ~g[c].wao /\ \A ch \in Channels : g[c].wsf[ch] <= 1

\* the stop arrived past a step's check: that step wrote both channels, then the loop
\* observed the request
C4_Witness ==
  \E c \in Callers : g[c].obs /\ \A ch \in Channels : g[c].wsf[ch] = 1

\* C5: once stop() has set the flag during a session, the session spends at most one
\* step interval more in its stepping phase.
C5_BoundedStop ==
  \A c \in Callers : g[c].lag <= DELAY_MS

\* C6: a step of stop() taken while the animator is Idle writes no position and leaves
\* is_animating False; and a session ends as stopped only if stop() was called during
\* that session, so a stop made before it does not cancel or shorten it.
C6_StopWhileIdleNoOp ==
  /\ [][StopStep /\ ~is_animating => positions' = positions /\ ~is_animating']_vars
  /\ [](\A c \in Callers : th[c].pc = "release" /\ g[c].how = "stopped" => g[c].stopd)

\* stop() was called before the first session was claimed, and that session has run
\* all its frames
C6_Witness ==
  \E c \in Callers :
    th[c].pc = "release" /\ g[c].idleStop /\ g[c].how = "completed" /\ ~g[c].stopd

\* what Animator.stop() acts on, and what it leaves of it
StopState == [flag |-> stop_requested, audio |-> AudioState]
StopResult(s) == [flag |-> TRUE, audio |-> AudioStopResult(s.audio)]

C8_AudioFirst ==
  \A c \in Callers :
    HasAudio(c) /\ th[c].latency >= 0 /\ g[c].wrote =>
      g[c].playInv /\ g[c].playRet /\ (th[c].latency > 0 => g[c].offSlept)

\* such a session, with a positive offset, has written a position
C8_Witness ==
  \E c \in Callers :
    HasAudio(c) /\ th[c].latency > 0 /\ g[c].wrote /\ g[c].playRet /\ g[c].offSlept

C10_CancelledNeverPlays ==
  \A c \in Callers : tm[c].pc = "play" => ~tm[c].cancel

\* C11: the wait for the start confirmation lasts at most the timeout and is pending only
\* while the launch is; when it ends, by confirmation, launch failure or timeout alike,
\* the session continues with the offset sleep or the first frame, its locals untouched.
C11_StartTimeoutNonFatal ==
  /\ [](\A c \in Callers : th[c].pc = "play_wait" =>
          /\ th[c].sleep \in 0..START_TIMEOUT_MS
          /\ ~play_started => \E a \in AThreads : au[a].pc = "spawn")
  /\ [][\A c \in Callers : th[c].pc = "play_wait" /\ th'[c].pc # "play_wait" =>
          th'[c] = [th[c] EXCEPT
                      !.pc = IF th[c].latency > 0 THEN "offset_sleep" ELSE "frame",
                      !.sleep = IF th[c].latency > 0 THEN th[c].latency ELSE 0]]_vars

\* play() returned without a confirmation (the launch is still pending) and the session
\* has written a position
C11_Witness ==
  \E c \in Callers :
    /\ HasAudio(c) /\ th[c].latency >= 0 /\ g[c].playRet /\ g[c].wrote
    /\ ~play_started /\ \E a \in AThreads : au[a].pc = "spawn"

\* C12: a session in which a servo write or the audio handshake failed does not end by
\* the exception: it reaches its release only by exhausting its frames or by a stop.
C12_FailuresLocal ==
  \A c \in Callers : th[c].pc = "release" /\ nFaults > 0 => g[c].how # "exc"

\* C13: at most one async start is outstanding (reported started, its session not yet
\* over) at a time: of racing async starts at most one reports started.
C13_StartTruthful ==
  Cardinality({c \in Callers : th[c].async}) <= 1

\* ------------------------------------------------------------------
\* interpolator claims
SortedCurve(points) ==
  \A i \in 1..(Len(points) - 1) : points[i].time <= points[i + 1].time
StrictCurve(points) ==
  \A i \in 1..(Len(points) - 1) : points[i].time < points[i + 1].time
PointsAt(points, time) == {i \in 1..Len(points) : points[i].time = time}
LastOf(S) == CHOOSE i \in S : \A j \in S : j <= i

\* C14 (as stated): on a curve with sorted times, a query at exactly the time of
\* a control point returns that point's pulse.
C14_ExactAtPointsAnySorted ==
  interp.done /\ SortedCurve(interp.points) =>
    \A i \in PointsAt(interp.points, interp.time) : interp.out = interp.points[i].pulse

\* C14 (amended): on a curve with sorted times, a query at exactly the time of a
\* control point returns the pulse of the last point of the list that has that
\* time; so with strictly increasing times it returns that point's pulse.
C14_ExactAtPoints ==
  interp.done /\ SortedCurve(interp.points) /\ PointsAt(interp.points, interp.time) # {} =>
    /\ interp.out = interp.points[LastOf(PointsAt(interp.points, interp.time))].pulse
    /\ StrictCurve(interp.points) =>
         \A i \in PointsAt(interp.points, interp.time) : interp.out = interp.points[i].pulse

C14_Witness ==
  /\ interp.done /\ StrictCurve(interp.points) /\ Len(interp.points) = 3
  /\ interp.time = interp.points[2].time
  /\ interp.points[2].pulse = 3000 /\ interp.points[1].pulse = 1000
  /\ interp.out = 3000

AdjacentAround(points, time) ==
  {i \in 1..(Len(points) - 1) :
     Min(points[i].time, points[i + 1].time) < time
       /\ time < Max(points[i].time, points[i + 1].time)}
BetweenPulses(v, p, q) == Min(p.pulse, q.pulse) <= v /\ v <= Max(p.pulse, q.pulse)

\* C15 (as stated): on every curve, in any order, a query strictly between the
\* times of two adjacent points returns a value between those points' pulses.
C15_NoOvershootAnyOrder ==
  interp.done =>
    \A i \in AdjacentAround(interp.points, interp.time) :
      BetweenPulses(interp.out, interp.points[i], interp.points[i + 1])

\* C15 (amended): on every curve with sorted (non-decreasing) times, a query
\* strictly between the times of two adjacent points returns a value between
\* those points' pulses.
C15_NoOvershoot ==
  interp.done /\ SortedCurve(interp.points) =>
    \A i \in AdjacentAround(interp.points, interp.time) :
      BetweenPulses(interp.out, interp.points[i], interp.points[i + 1])

C15_Witness ==
  /\ interp.done /\ SortedCurve(interp.points) /\ Len(interp.points) = 3
  /\ interp.points[2] = [time |-> 50, pulse |-> 1000]
  /\ interp.points[3] = [time |-> 100, pulse |-> 1001]
  /\ interp.time = 75 /\ interp.out = 1000

PulsesOf(points) == {points[i].pulse : i \in 1..Len(points)}

C17_HoldAtEnds ==
  LET pts == interp.points IN
    interp.done /\ pts # << >> /\ SortedCurve(pts) =>
      /\ interp.time >= pts[Len(pts)].time => interp.out = pts[Len(pts)].pulse
      /\ interp.time < pts[1].time => interp.out = pts[1].pulse

C17_Witness ==
  LET pts == interp.points IN
    /\ interp.done /\ Len(pts) = 2 /\ StrictCurve(pts)
    /\ pts[1].pulse # pts[2].pulse /\ pts[1].pulse # interp.default
    /\ interp.time < pts[1].time /\ interp.out = pts[1].pulse

C17_WitnessLast ==
  LET pts == interp.points IN
    /\ interp.done /\ Len(pts) = 2 /\ StrictCurve(pts)
    /\ pts[1].pulse # pts[2].pulse
    /\ interp.time > pts[2].time /\ interp.out = pts[2].pulse

\* ------------------------------------------------------------------
\* stepping claims
LimitClamp(ch, p) == Clamp(servos[ch].min_pulse, servos[ch].max_pulse, p)

\* C18: a keyframe that runs through all its steps leaves every channel it
\* targets at its target clamped to the channel's limits (the target itself when
\* it lies within them): the last step commands the target (clamped to the global
\* range), whatever the start and the number of steps.
C18_EndsAtTarget ==
  /\ [](\A c \in Callers : th[c].pc = "write" /\ th[c].step_num = th[c].steps =>
          \A ch \in DOMAIN th[c].targets :
            StepPos(th[c].starts[ch], th[c].targets[ch], th[c].step_num, th[c].steps)
              = Clamp(MIN_PULSE, MAX_PULSE, th[c].targets[ch]))
  /\ [][\A c \in Callers :
          th[c].pc = "step" /\ th'[c].pc = "frame" /\ ~StepStopCheck =>
            \A ch \in DOMAIN th[c].targets :
              positions[ch] = LimitClamp(ch, th[c].targets[ch])]_vars

C18_Witness ==
  \E c \in Callers :
    /\ th[c].pc = "step" /\ th[c].step_num > th[c].steps /\ ~stop_requested
    /\ th[c].fi = 2 /\ th[c].steps = 4
    /\ th[c].starts[0] = 1461 /\ th[c].targets[0] = 2600 /\ positions[0] = 1540
    /\ th[c].targets[1] = 1470 /\ positions[1] = 1470

\* the position step sn of the frame under way commands to channel ch
Commanded(t, ch, sn) == StepPos(t.starts[ch], t.targets[ch], sn, t.steps)
TowardTarget(start, target, prev, cmd) ==
  IF target >= start THEN prev <= cmd /\ cmd <= Max(start, target)
  ELSE prev >= cmd /\ cmd >= Min(start, target)

\* C19: within one keyframe the positions commanded to a channel are monotone
\* toward the target: each step's command lies between the previous step's
\* command (the snapshotted start, for the first) and the target, so no step
\* overshoots the target or moves away from it; the positions applied move the
\* same way.
C19_MonotoneToTarget ==
  [][\A c \in Callers :
       th[c].pc = "write" /\ th'[c].pc = "step_sleep" =>
         \A ch \in DOMAIN th[c].targets :
           LET t == th[c] IN
             /\ TowardTarget(t.starts[ch], t.targets[ch],
                             IF t.step_num = 0 THEN t.starts[ch]
                             ELSE Commanded(t, ch, t.step_num - 1),
                             Commanded(t, ch, t.step_num))
             /\ TowardTarget(t.starts[ch], t.targets[ch], positions[ch], positions'[ch])]_vars

C19_Witness ==
  \E c \in Callers :
    /\ th[c].pc = "step_sleep" /\ th[c].fi = 2 /\ th[c].steps = 4 /\ th[c].step_num = 3
    /\ th[c].starts[0] = 1533 /\ th[c].targets[0] = 1400
    /\ positions[0] = 1460 /\ Commanded(th[c], 0, 2) = 1466

\* the session of c is at a set_position call of its stepping loop
AtWrite(c) == th[c].pc \in {"write", "sweep_write"}

\* C20: no snap on exit.  A step of stop() writes no position; a position changes
\* only in a step a session's stepping loop takes at one of its set_position
\* calls; and a session that has left its loop (by stop, completion or
\* exception) changes no position on its way out.  So after a session every
\* channel holds what the loop last commanded, or what it held before.
C20_NoSnapOnExit ==
  /\ [][StopStep => positions' = positions]_vars
  /\ [][positions' # positions => \E c \in Callers : AtWrite(c) /\ th'[c] # th[c]]_vars
  /\ [][\A c \in Callers : th[c].pc = "release" /\ th'[c] # th[c] =>
          positions' = positions]_vars

\* the only session so far was stopped midway through its frame (1500 -> 1540 in
\* two steps) and has returned: channel 0 rests at the middle step
C20_Witness ==
  /\ \A c \in Callers : th[c].pc = "idle"
  /\ ~is_animating /\ stop_requested /\ spc = "idle"
  /\ nClaims = 1 /\ nFaults = 0
  /\ positions[0] = 1520 /\ positions[1] = CENTER_PULSE

\* ------------------------------------------------------------------
\* C21: the preset path never invokes the audio port.  A play_preset session,
\* from claim to release, never calls AudioPlayer.play, never waits on it and
\* starts no deferred audio timer, and no step it takes changes the audio
\* player's state, whether or not a track is selected and whatever the offset.
C21_PresetNoAudio ==
  /\ [](\A c \in Callers : th[c].kind = "preset" =>
          /\ ~g[c].playInv /\ ~g[c].playRet /\ ~g[c].tplayed
          /\ th[c].pc \notin {"handshake", "play_call", "play_wait", "offset_sleep"}
          /\ tm[c].pc = "none")
  /\ [][\A c \in Callers : th[c].kind = "preset" /\ th'[c] # th[c] /\ ~NobodyReady =>
          UNCHANGED audioVars]_vars

\* a preset has run all its sweeps with a track selected and a negative offset
C21_Witness ==
  \E c \in Callers :
    /\ th[c].kind = "preset" /\ th[c].pc = "release" /\ g[c].how = "completed"
    /\ track /\ audio_offset_ms < 0 /\ ~is_playing

\* C22: an uninterrupted play_preset sweeps channel 0 between its configured
\* center and its configured max, then channel 1 between its configured center
\* and its configured min: every position it commands to a channel lies within
\* that range, and once it has run all its sweeps both channels rest at their
\* configured center.
C22_PresetSweepsConfigured ==
  \A c \in Callers :
    /\ th[c].kind = "preset" /\ th[c].pc = "sweep_write" /\ ~g[c].stopd =>
         LET ch == SweepChannel(th[c].sw) IN
           /\ ch = 0 => th[c].pos \in servos[0].center_pulse..servos[0].max_pulse
           /\ ch = 1 => th[c].pos \in servos[1].min_pulse..servos[1].center_pulse
    /\ th[c].kind = "preset" /\ th[c].pc = "release" /\ g[c].how = "completed" /\ ~g[c].stopd =>
         \A ch \in Channels : positions[ch] = servos[ch].center_pulse

\* (what the code does) an uninterrupted preset that has run all its sweeps on
\* servos centered at 1400 leaves them at CENTER_PULSE
C22_EndsAtGlobalCenter ==
  \E c \in Callers :
    /\ th[c].kind = "preset" /\ th[c].pc = "release" /\ g[c].how = "completed" /\ ~g[c].stopd
    /\ \A ch \in Channels : servos[ch].center_pulse = 1400 /\ positions[ch] = CENTER_PULSE

\* C23: saved-animation sampling.  The keyframe list generated for an animation
\* of duration D has one keyframe per sample time 0, I, 2I, ... and its last
\* keyframe is sampled at time D; each keyframe has duration I; and each targets,
\* for every curve channel, the curve's value at its sample time with the
\* channel's configured center as default.
C23_SamplingToDuration ==
  web.req = "play_saved" /\ web.status = "started" =>
    LET kf == web.keyframes
        a == web.animation
    IN /\ Len(kf) = a.duration_ms \div SAMPLE_INTERVAL + 1
       /\ SampleTime(Len(kf)) = a.duration_ms
       /\ \A i \in 1..Len(kf) :
            /\ kf[i].duration = SAMPLE_INTERVAL
            /\ DOMAIN kf[i].servos = DOMAIN a.curves
            /\ \A k \in DOMAIN a.curves :
                 kf[i].servos[k] = GetValueAtTime(a.curves[k], SampleTime(i),
                                                  servos[KeyToInt(k)].center_pulse)

\* C24: the latency offset is always within [-500, 1000] ms, after any
\* configuration load, any offset update and any session: both the value
\* audio_offset_ms returns and the value a session read at its start.
C24_OffsetInRange ==
  /\ audio_offset_ms \in OFFSET_MIN..OFFSET_MAX
  /\ \A c \in Callers : th[c].latency \in OFFSET_MIN..OFFSET_MAX

\* (what the code does) a session sleeps the 1200 ms the config file held
C24_SessionReadsLoaded ==
  \E c \in Callers : th[c].pc = "offset_sleep" /\ th[c].latency = 1200 /\ th[c].sleep = 1200

\* C25 (as stated): set_position(ch, p) applies and returns p clamped to the
\* channel's configured range, and get_position(ch) returns what the most recent
\* set_position(ch) returned, or the channel's configured center if there was none.
C25_RegisterAnySequence ==
  /\ web.req = "servo" /\ web.op = "set" =>
       /\ web.out = Clamp(servos[web.ch].min_pulse, servos[web.ch].max_pulse, web.arg)
       /\ positions[web.ch] = web.out
  /\ web.req = "servo" /\ web.op = "get" =>
       web.out = IF web.ch \in DOMAIN web.last THEN web.last[web.ch]
                 ELSE servos[web.ch].center_pulse

\* C25 (amended): set_position(ch, p) applies and returns p clamped to the
\* channel's configured range, and get_position(ch) returns what the most recent
\* set_position(ch) returned if the channel was set since set_num_servos last
\* removed it, and the channel's configured center otherwise.
C25_Register ==
  /\ web.req = "servo" /\ web.op = "set" =>
       /\ web.out = Clamp(servos[web.ch].min_pulse, servos[web.ch].max_pulse, web.arg)
       /\ positions[web.ch] = web.out
  /\ web.req = "servo" /\ web.op = "get" =>
       web.out = IF web.ch \in web.live THEN web.last[web.ch]
                 ELSE servos[web.ch].center_pulse

\* channel 2, never set, reads as the default center; channel 0 reads as the
\* clamped pulse it was last set to although its limits have changed since
C25_Witness ==
  /\ web.req = "servo" /\ web.op = "get" /\ web.ch = 0
  /\ web.out = 1540 /\ servos[0].max_pulse = 1700 /\ web.last[0] = 1540
  /\ 2 \notin DOMAIN positions

\* C26: AudioPlayer.stop() terminates any playback in flight and is idempotent.
\* Once stop() has returned, with no play() called since, no external player
\* process is running, is_playing is False, and another stop() would change
\* nothing, however stop() interleaved with the play thread.
C26_StopTerminates ==
  web.req = "audio" /\ web.last = "stop" =>
    /\ ~is_playing
    /\ \A a \in AThreads : ~procAlive[a]
    /\ AudioStopResult(AudioState) = AudioState

\* (what the code does) stop() came while the play thread was still launching the
\* player: the process started afterwards, it runs, and the player says not playing
C26_LaunchedAfterStop ==
  /\ web.req = "audio" /\ web.last = "stop"
  /\ ~is_playing /\ current_process # NoProc /\ procAlive[current_process]

PlayReturned == web.req = "audio" /\ web.last = "play" /\ web.returned

C27_WitnessRefused ==
  PlayReturned /\ track /\ ~web.out /\ is_playing

\* C28: every claimed session terminates.  Under fair scheduling a play_preset
\* or play_keyframes session, once claimed, eventually releases the active flag
\* and its call ends (returning, or raising on a frame it cannot parse), with or
\* without a stop, whatever the audio outcome (no track,
\* start confirmed, start timed out, launch failed) and the sign of the offset.
C28_SessionsTerminate ==
  /\ is_animating ~> ~is_animating
  /\ \A c \in Callers : InSession(c) ~> (th[c].pc = "idle" /\ ret[c] \in {"true", "raised"})

\* never stopped, a keyframe session with audio and a negative offset has returned
\* although the player's launch outlasted it
C28_Witness ==
  /\ th["c1"].pc = "idle" /\ ret["c1"] = "true" /\ ~is_animating
  /\ nClaims = 1 /\ nStops = 0 /\ track /\ audio_offset_ms < 0
  /\ \E a \in AThreads : au[a].pc = "spawn"

\* the duration of the frame a keyframe session is stepping through
FrameDuration(c) == th[c].frames[th[c].fi].duration

\* C29: for every keyframe with duration_ms >= 0 the number of interpolation steps
\* is max(1, round(duration_ms / 20)); in particular it is never 0.
C29_StepsRounded ==
  \A c \in Callers :
    th[c].pc = "step" =>
      /\ th[c].steps = Max(1, RoundHalfEven(FrameDuration(c), DELAY_MS))
      /\ th[c].steps >= 1

\* a 30 ms frame is stepped once, where rounding gives 2
C29_TruncatedBelowRound ==
  \E c \in Callers :
    /\ th[c].pc = "step" /\ FrameDuration(c) = 30
    /\ th[c].steps = 1 /\ RoundHalfEven(30, DELAY_MS) = 2

\* a 580 ms frame gets 28 steps, where the exact quotient is 29
C29_ShortOfExact ==
  \E c \in Callers :
    th[c].pc = "step" /\ FrameDuration(c) = 580 /\ th[c].steps = 28

\* the part of C29 that holds: the step count is never 0
C29_NeverZero == \A c \in Callers : th[c].pc = "step" => th[c].steps >= 1

\* round(start + (target - start) * sn / n), the quotient taken exactly
RoundedPos(start, target, sn, n) == RoundHalfEven(start * n + (target - start) * sn, n)

\* frames are taken in list order and the steps of a frame in increasing order,
\* from 0 to steps; only a stop ends a frame before its last step
SteppedInOrder ==
  \A c \in Callers :
    /\ th[c].pc = "step_sleep" /\ th'[c].pc = "step" => th'[c].step_num = th[c].step_num + 1
    /\ th[c].pc = "frame" /\ th'[c].pc = "step" => th'[c].step_num = 0
    /\ th[c].kind = "kf" /\ th'[c].kind = "kf" /\ th'[c].fi # th[c].fi =>
         th'[c].fi = th[c].fi + 1 /\ (th[c].step_num > th[c].steps \/ stop_requested)

\* C30: per-frame stepping.  Frames are processed in list order; within an
\* uninterrupted frame each targeted channel receives steps + 1 commands, for
\* step_num = 0..steps in increasing order, and each passes
\* pos = round(start + (target - start) * step_num / steps) to set_position, start
\* being the position snapshotted at frame start.
C30_StepsCommandRounded ==
  /\ [](\A c \in Callers : th[c].pc = "write" =>
          /\ th[c].step_num \in 0..th[c].steps
          /\ \A ch \in DOMAIN th[c].targets :
               Commanded(th[c], ch, th[c].step_num)
                 = RoundedPos(th[c].starts[ch], th[c].targets[ch], th[c].step_num, th[c].steps))
  /\ [][SteppedInOrder]_vars

\* from 1500 toward 1461 in 4 steps, step 3 passes 1470 where rounding gives 1471
C30_Truncated ==
  \E c \in Callers :
    /\ th[c].pc = "write" /\ th[c].steps = 4 /\ th[c].step_num = 3
    /\ th[c].starts[0] = 1500 /\ th[c].targets[0] = 1461
    /\ Commanded(th[c], 0, 3) = 1470 /\ RoundedPos(1500, 1461, 3, 4) = 1471

\* toward 2600 the last step passes 2500: the position is clamped to the global
\* range before set_position is called
C30_ClampedBeforeCall ==
  \E c \in Callers :
    /\ th[c].pc = "write" /\ th[c].step_num = th[c].steps
    /\ th[c].targets[0] = 2600 /\ Commanded(th[c], 0, th[c].step_num) = MAX_PULSE

\* the part of C30 that holds: the order of frames and steps, steps + 1 commands
C30_OrderHolds ==
  /\ [](\A c \in Callers : th[c].pc = "write" => th[c].step_num \in 0..th[c].steps)
  /\ [][SteppedInOrder]_vars

\* ------------------------------------------------------------------
\* C31: continuity and frame of a keyframe.  At the start of each frame the start
\* of every targeted channel is the position the controller last applied to it
\* (not the previous frame's target); the frame's first command to a channel
\* equals that position and leaves it where it is; and a step of the session
\* changes the position of no channel outside the frame's targets.
C31_FrameContinuity ==
  /\ [](\A c \in Callers : th[c].pc = "write" /\ th[c].step_num = 0 =>
          \A ch \in DOMAIN th[c].targets :
            /\ th[c].starts[ch] = positions[ch]
            /\ Commanded(th[c], ch, 0) = positions[ch])
  /\ [][\A c \in Callers :
          /\ th[c].pc = "frame" /\ th'[c].pc = "step" =>
               \A ch \in DOMAIN th'[c].targets : th'[c].starts[ch] = positions[ch]
          /\ th[c].pc = "write" /\ th'[c] # th[c] =>
               /\ \A ch \in Channels \ DOMAIN th[c].targets : positions'[ch] = positions[ch]
               /\ th[c].step_num = 0 => positions' = positions
          /\ th[c].pc \in {"frame", "step", "step_sleep"} /\ th'[c] # th[c] =>
               positions' = positions]_vars

\* the second frame starts channel 0 from 1540, where the clamp left it, not from
\* the first frame's target 2600, and has issued its first command; channel 1,
\* which only the second frame targets, kept its position through the first
C31_Witness ==
  \E c \in Callers :
    /\ th[c].pc = "step_sleep" /\ th[c].fi = 2 /\ th[c].step_num = 0
    /\ th[c].frames[1].servos["0"] = 2600 /\ th[c].starts[0] = 1540
    /\ th[c].targets[0] = 1400 /\ positions[0] = 1540
    /\ th[c].starts[1] = CENTER_PULSE /\ positions[1] = CENTER_PULSE

\* C32: the synchronization handshake runs only if audio is requested and a track
\* is selected.  A play_keyframes session with with_audio false, or with no track
\* selected, never calls AudioPlayer.play and never starts a deferred audio timer;
\* its step after the claim goes straight to the first frame and touches nothing
\* of the player.
C32_HandshakeOnlyWithAudio ==
  /\ [](\A c \in Callers :
          InSession(c) /\ th[c].kind = "kf" /\ ~(th[c].with_audio /\ track) =>
            /\ th[c].pc \notin {"play_call", "play_wait", "offset_sleep"}
            /\ tm[c].pc = "none"
            /\ ~g[c].playInv /\ ~g[c].tplayed /\ ~th[c].has_audio)
  /\ [][\A c \in Callers :
          th[c].pc = "handshake" /\ th'[c] # th[c] /\ ~(th[c].with_audio /\ track) =>
            /\ th'[c].pc = "frame"
            /\ tm' = tm
            /\ UNCHANGED audioVars]_vars

\* with a track selected, a session asked to play without audio is writing its
\* first step and the player is idle
C32_Witness ==
  \E c \in Callers :
    /\ th[c].kind = "kf" /\ th[c].pc = "write" /\ ~th[c].with_audio /\ track
    /\ nClaims = 1 /\ ~is_playing /\ \A a \in AThreads : au[a].pc = "none"

\* without a track, a session asked to play with audio is writing its first step
C32_WitnessNoTrack ==
  \E c \in Callers :
    /\ th[c].kind = "kf" /\ th[c].pc = "write" /\ th[c].with_audio /\ ~track
    /\ ~is_playing /\ tm[c].pc = "none"

\* an engine thread (a session, its timer, a play thread, stop) takes the step
EngineStep == th' # th \/ tm' # tm \/ au' # au \/ spc' # spc

\* C33: the latency offset is read once per session, at the handshake, and the
\* engine never writes it.  No step of an engine thread changes audio_offset_ms;
\* the value the session read stays what it is until the session ends, whatever
\* POST /audio/offset does meanwhile; and the branch taken, the sleep after
\* play() and the timer's delay are those of the value read.
C33_OffsetReadOnce ==
  /\ [](\A c \in Callers :
          /\ th[c].pc \in {"play_call", "play_wait", "offset_sleep"} =>
               th[c].latency >= 0 /\ tm[c].pc = "none"
          /\ th[c].pc = "offset_sleep" => th[c].latency > 0 /\ th[c].sleep <= th[c].latency
          /\ tm[c].pc # "none" =>
               /\ tm[c].latency < 0
               /\ tm[c].left + tm[c].elapsed = Abs(tm[c].latency)
               /\ InSession(c) => th[c].latency = tm[c].latency)
  /\ [][/\ EngineStep => audio_offset_ms' = audio_offset_ms
        /\ \A c \in Callers :
             /\ th[c].pc = "handshake" /\ th'[c].has_audio => th'[c].latency = audio_offset_ms
             /\ InSession(c) /\ th[c].pc \notin {"claim_reset", "handshake"} /\ th'[c].pc # "idle" =>
                  th'[c].latency = th[c].latency /\ th'[c].has_audio = th[c].has_audio
             /\ tm[c].pc # "none" /\ tm'[c].pc # "none" => tm'[c].latency = tm[c].latency]_vars

\* a session that read 20 ms sleeps its 20 ms after play() although the offset has
\* been set to 1000 ms meanwhile
C33_Witness ==
  \E c \in Callers :
    /\ th[c].pc = "offset_sleep" /\ th[c].latency = 20 /\ th[c].sleep = 20
    /\ audio_offset_ms = OFFSET_MAX

\* a session that read -40 ms steps with its timer pending although the offset is
\* now positive
C33_WitnessTimer ==
  \E c \in Callers :
    /\ th[c].pc = "step_sleep" /\ th[c].latency = 0 - 40
    /\ tm[c].pc = "sleep" /\ tm[c].left = 20 /\ tm[c].elapsed = 20
    /\ audio_offset_ms = 20

\* ------------------------------------------------------------------
\* web layer claims
\* the step changes a servo position, a servo's limits or the servo count
ServoStateChanges == positions' # positions \/ servos' # servos \/ num_servos' # num_servos

\* C34: single writer while Running.  While a session is active every servo
\* position write and every change of limits or count comes from the session's
\* stepping loop; the handlers /servo, /center, /servo/<id>/config and /config
\* never perform their write during a session, under any interleaving with a
\* concurrent start.
C34_SingleWriter ==
  /\ [](~web.during)
  /\ [][is_animating /\ ServoStateChanges =>
          \E c \in Callers : AtWrite(c) /\ th'[c] # th[c]]_vars

\* POST /servo tested the flag before the session claimed it and moved channel 0
\* to 1400 between two steps of the frame
C34_WriteDuringFrame ==
  /\ web.req = "servo" /\ web.status = "ok" /\ web.during /\ web.ch = 0
  /\ th["c1"].pc = "step" /\ th["c1"].step_num = 1 /\ th["c1"].starts[0] = CENTER_PULSE
  /\ positions[0] = 1400

\* POST /servo/0/config changed the limits of channel 0 under a running session
C34_LimitsDuringSession ==
  /\ web.req = "config" /\ web.status = "ok" /\ web.during
  /\ InSession("c1") /\ servos[0].max_pulse = 1700

\* (what holds) a handler that finds the flag set answers busy and writes nothing
C34_BusyWritesNothing ==
  [][web'.status = "busy" /\ web' # web => is_animating /\ ~ServoStateChanges]_vars

\* ------------------------------------------------------------------
\* C35: a stop is never lost.  If stop() is called after an async start has
\* returned True and before its session has finished, the session observes it:
\* from the stop on it begins no further write, frame or sweep step, whatever the
\* order of the stop and the background thread's claim of the flag.
C35_StopNeverLost ==
  [][\A c \in Callers :
       nStops > 0 /\ th'[c].pc \in {"write", "sweep_write"} =>
         th[c].pc \in {"write", "sweep_write"}]_vars

\* stop() was called and has returned, after the start and before the claim; the
\* claim cleared the request and the session is writing
C35_StopLost ==
  /\ nStops = 1 /\ spc = "idle" /\ ~stop_requested
  /\ th["c1"].async /\ th["c1"].pc = "write" /\ th["c1"].kind = "kf"

\* (what holds) a stop called once the claim has reset the flag is observed
C35_StopAfterClaimObserved ==
  [][\A c \in Callers :
       stop_requested /\ g[c].stopd /\ th'[c].pc \in {"write", "sweep_write"} =>
         th[c].pc \in {"write", "sweep_write"}]_vars

\* C36: the completion callback of play_preset_async / play_keyframes_async is
\* called when the animation completes: once per accepted start, only after the
\* session that start ran has released the active flag, and never for a start
\* whose session was rejected as already animating.
C36_CallbackOnCompletion ==
  \A c \in Callers :
    /\ web.called[c] <= 1
    /\ web.called[c] = 1 => web.outcome[c] = "true"
    /\ ~(th[c].pc = "idle" /\ ret[c] = "raised" /\ web.called[c] = 0)

\* both starts returned True; c2's play call was refused at the claim, and its
\* callback has been called while c1's session is still running
C36_CalledForRejected ==
  /\ web.called["c2"] = 1 /\ web.outcome["c2"] = "busy"
  /\ InSession("c1") /\ is_animating

\* an accepted start whose session raised: the thread has ended, no callback
C36_NoCallbackAfterRaise ==
  /\ th["c1"].pc = "idle" /\ ret["c1"] = "raised" /\ web.called["c1"] = 0
  /\ ~is_animating /\ nClaims = 1

\* (what holds) the callback of a session that ran is called after its release
C36_AfterRelease ==
  [][\A c \in Callers :
       web'.called[c] = 1 /\ web.called[c] = 0 /\ ret[c] = "true" =>
         ~InSession(c) /\ (is_animating => \E d \in Callers \ {c} : InSession(d))]_vars

\* ------------------------------------------------------------------
\* the external player processes that are running
AliveProcesses == {a \in AThreads : procAlive[a]}

\* C37: at most one external audio process launched by AudioPlayer is alive at any
\* time, and is_playing is True whenever one is alive, for every interleaving of
\* play(), stop() and the play thread.
C37_OneProcessAlive ==
  /\ Cardinality(AliveProcesses) <= 1
  /\ AliveProcesses # {} => is_playing

\* two player processes run at once: the first was launched after a stop() that
\* found no process to terminate, the second by the play() that stop() let in
C37_TwoAlive ==
  /\ AliveProcesses = AThreads
  /\ nStops = 1 /\ nStarts = 2

\* a process runs while the player says it is not playing
C37_AliveNotPlaying ==
  /\ AliveProcesses # {} /\ ~is_playing /\ current_process # NoProc

\* ------------------------------------------------------------------
\* C38: a deferred audio start belongs to its session.  The timer thread of a
\* negative-offset session is about to invoke play() only while the session that
\* scheduled it is still running: never after that session has ended, by
\* completion or by stop, nor during a later session.
C38_TimerWithinSession ==
  \A c \in Callers :
    tm[c].pc = "play" => InSession(c) /\ th[c].latency = tm[c].latency

\* never stopped, the session has completed and released the flag; its timer is
\* at play() with nothing animating (a state of SpecOffset, whose session is
\* shorter than its timer; the sessions of Spec outlast theirs unless they raise)
C38_PlaysAfterCompletion ==
  \E c \in Callers :
    /\ tm[c].pc = "play" /\ ~InSession(c) /\ ret[c] = "true"
    /\ nStops = 0 /\ ~is_animating

\* the timer of c1's ended session is at play() while c2's session runs
C38_PlaysDuringLater ==
  /\ tm["c1"].pc = "play" /\ ~InSession("c1")
  /\ InSession("c2") /\ is_animating

\* (what holds) each timer invokes play() at most once: it ends with the call
C38_AtMostOnce ==
  [][\A c \in Callers : tm[c].pc = "play" /\ tm'[c] # tm[c] => tm'[c] = NoTimer]_vars

\* ------------------------------------------------------------------
WellFormed(st) ==
  /\ MIN_PULSE <= st.min_pulse /\ st.min_pulse < st.max_pulse /\ st.max_pulse <= MAX_PULSE
  /\ st.min_pulse <= st.center_pulse /\ st.center_pulse <= st.max_pulse

\* C39: servo limits stay well-formed.  From default settings, after any sequence
\* of POST /servo/<id>/config requests every servo's settings satisfy
\* MIN_PULSE <= min_pulse < max_pulse <= MAX_PULSE and
\* min_pulse <= center_pulse <= max_pulse, and a request answered with an error
\* (bad channel, min not less than max) or busy leaves the settings unchanged.
C39_LimitsWellFormed ==
  /\ [](\A ch \in DOMAIN servos : WellFormed(servos[ch]))
  /\ [][web' # web /\ web'.status \in {"error", "busy"} => servos' = servos]_vars

\* asked for 700..2600 with center 3000 after an earlier update, channel 0 holds
\* 800..2500 with the center moved to the middle
C39_Witness ==
  /\ web.req = "config" /\ web.status = "ok" /\ web.ch = 0
  /\ web.data = DataOf({"min_pulse", "max_pulse", "center_pulse"}, 700, 2600, 3000)
  /\ servos[0] = [min_pulse |-> MIN_PULSE, max_pulse |-> MAX_PULSE, center_pulse |-> 1650]
  /\ servos[1] = DefaultSettings

\* a request for min_pulse 1700 alone, on limits 800..1700, was answered with an error
C39_WitnessRejected ==
  /\ web.req = "config" /\ web.status = "error" /\ web.ch = 0
  /\ web.data = DataOf({"min_pulse"}, 1700, 0, 0)
  /\ servos[0].min_pulse = MIN_PULSE /\ servos[0].max_pulse = 1700

\* ------------------------------------------------------------------
\* a thread is inside, or waiting in, a call of AudioPlayer.play
InPlay(c) == th[c].pc \in {"play_call", "play_locked", "play_wait"}
TimerInPlay(c) == tm[c].pc \in {"play", "play_locked"}

\* C40: no deadlock between the two locks.  No thread holds the Animator lock and
\* the AudioPlayer lock at once, neither lock is held by a thread waiting for the
\* start-confirmation event (no thread waits for a session thread), and under fair
\* scheduling every call of stop(), play_keyframes and AudioPlayer.play returns.
C40_NoDeadlock ==
  /\ [](AudioLockCount <= 1)
  /\ [](\A c \in Callers : ~(lockOwner = c /\ th[c].pc = "play_locked"))
  /\ [](\A c \in Callers : th[c].pc = "play_wait" => lockOwner # c)
  /\ (spc # "idle") ~> (spc = "idle")
  /\ \A c \in Callers : (th[c].pc # "idle") ~> (th[c].pc = "idle")
  /\ \A c \in Callers : InPlay(c) ~> ~InPlay(c)
  /\ \A c \in Callers : TimerInPlay(c) ~> (tm[c].pc = "none")

\* a session's play() waits for the AudioPlayer lock while stop() is inside its block
C40_Witness ==
  /\ th["c1"].pc = "play_call" /\ track /\ spc = "audio_locked" /\ lockOwner = "none"

\* a second call waits for the Animator lock while the first session's finally holds it
C40_WitnessAnimator ==
  /\ th["c1"].pc = "release_locked" /\ lockOwner = "c1" /\ th["c2"].pc = "claim"

\* the session waits for the start-confirmation event while the play thread's
\* finally holds the AudioPlayer lock (the launch failed)
C40_WitnessEvent ==
  /\ th["c1"].pc = "play_wait" /\ \E a \in AThreads : au[a].pc = "finally_locked"

TypeOK ==
  /\ is_animating \in BOOLEAN /\ stop_requested \in BOOLEAN
  /\ lockOwner \in Callers \cup {"none"}
  /\ \A ch \in Channels : positions[ch] \in MIN_PULSE..MAX_PULSE

====
